---- MODULE Spec2Model ----
(***************************************************************************)
(* Import pipeline of the Discord scraper: the relational store behind     *)
(* db/service.py (DatabaseService) and the importer of DiscordChatExporter *)
(* JSON files, scripts/import_historical_exports.py (import_json_file).    *)
(*                                                                         *)
(* JSON objects are functions from key names to values, so that a missing  *)
(* key is a key outside the DOMAIN, as dict.get sees it.  SQL NULL /       *)
(* Python None is "None" in text and time columns and 0 in integer ones.   *)
(***************************************************************************)
EXTENDS Integers, Sequences, FiniteSets, TLC

VARIABLES
    db,              \* the PostgreSQL tables: servers, channels, users, messages
    pc,              \* per import process: where import_json_file stands
    data,            \* per import process: the parsed export file (json.load)
    idx,             \* per import process: position of the for loop in messages
    found,           \* per import process: what the upsert's SELECT returned
    imported_count,  \* per import process: local imported_count
    skipped_count,   \* per import process: local skipped_count
    ret,             \* per import process: value import_json_file returned
    call,            \* the last service call made directly, with its outcome
    batch,           \* the main() of an import script: its file list, loop and totals
    ex,              \* batch_historical_export: the exports directory and a run of main()
    hist             \* history of the import runs (observation only)

vars == <<db, pc, data, idx, found, imported_count, skipped_count, ret, call, batch, ex, hist>>

(***************************************************************************)
(* Bounds and input domains                                                *)
(***************************************************************************)
MaxFileLen == 2      \* message records per export file
MaxRuns == 2         \* import_json_file runs per behaviour (per process)
MaxExportRuns == 2   \* runs of batch_historical_export per behaviour
MaxHistory == 3      \* messages a channel holds on the platform
MaxJobs == 2         \* backfill jobs created per behaviour
MaxCycles == 2       \* export cycles of the scheduled exporter per behaviour

Procs == {1, 2}      \* import processes; the sequential pipeline uses process 1
ServerId == 1        \* config['discord']['server_id'], passed to every import
ChannelIds == {1}
UserIds == {1, 2}
MsgIds == {1, 2}

\* author objects of the export format: author{id,name,discriminator,nickname,avatarUrl,isBot}
AuthorA == [id |-> "1", name |-> "alice", discriminator |-> "0001", isBot |-> FALSE]
AuthorA2 == [id |-> "1", name |-> "alicia", discriminator |-> "0", nickname |-> "al",
             avatarUrl |-> "a.png", isBot |-> FALSE]
AuthorB == [id |-> "2", name |-> "relay", discriminator |-> "0000", avatarUrl |-> "b.png",
            isBot |-> TRUE]

\* message records of the export format
RecPlain == [id |-> "1", author |-> AuthorA, timestamp |-> "2024-01-01T00:00:00Z",
             content |-> "gm"]
RecEdited == [id |-> "2", author |-> AuthorA2, timestamp |-> "2024-01-02T00:00:00+00:00",
              timestampEdited |-> "2024-01-03T00:00:00Z", content |-> "dtao"]
RecNoTimestamp == [id |-> "2", author |-> AuthorA2, content |-> "dtao"]
RecEditedOnly == [id |-> "1", author |-> AuthorB, timestampEdited |-> "2024-01-03T00:00:00Z",
                  content |-> "relayed"]
RecNoId == [author |-> AuthorB, timestamp |-> "2024-01-01T00:00:00Z", content |-> "gm"]

\* an entry of messages[] that is JSON null, not an object
RecNull == [json |-> "null"]

Records == {RecPlain, RecEdited, RecNoTimestamp, RecEditedOnly, RecNoId}

RECURSIVE SeqsUpTo(_, _)
SeqsUpTo(S, n) ==
    IF n = 0 THEN {<<>>}
    ELSE LET shorter == SeqsUpTo(S, n - 1)
         IN  shorter \cup {Append(s, x) : s \in {t \in shorter : Len(t) = n - 1}, x \in S}

ChannelMeta == [id |-> "1", name |-> "general", topic |-> "chat"]

\* what data holds before any file was read
NoFile == [channel |-> ChannelMeta, messages |-> <<>>]

\* the export files an import run may be given
ExportFiles == {[channel |-> ChannelMeta, messages |-> m] : m \in SeqsUpTo(Records, MaxFileLen)}

(***************************************************************************)
(* Python helpers                                                          *)
(***************************************************************************)
\* dict.get(key, default)
Get(obj, key, default) == IF key \in DOMAIN obj THEN obj[key] ELSE default

\* int(s) on the identifier strings of the export format
ParseInt(s) ==
    CASE s = "1" -> 1
      [] s = "2" -> 2
      [] s = "3" -> 3
      [] s = "4" -> 4
      [] OTHER -> 0

\* whether a parsed JSON value is an object (a Python dict)
IsObject(v) == "json" \notin DOMAIN v

\* a file whose text json.load cannot parse, and the document {}
Malformed == [malformed |-> TRUE]
EmptyDoc == [k \in {} |-> 0]
Parses(f) == "malformed" \notin DOMAIN f

\* int(obj.get('id', 0))
IdOf(obj) == IF "id" \in DOMAIN obj THEN ParseInt(obj["id"]) ELSE 0

\* datetime.fromisoformat(s.replace('Z', '+00:00')): the instant, written in UTC
ParseTimestamp(s) ==
    CASE s = "2024-01-01T00:00:00Z" -> "2024-01-01"
      [] s = "2024-01-01T00:00:00+00:00" -> "2024-01-01"
      [] s = "2024-01-02T00:00:00Z" -> "2024-01-02"
      [] s = "2024-01-02T00:00:00+00:00" -> "2024-01-02"
      [] s = "2024-01-03T00:00:00Z" -> "2024-01-03"
      [] s = "2024-01-03T00:00:00+00:00" -> "2024-01-03"
      [] OTHER -> "None"

(***************************************************************************)
(* The store (db/models.py) and DatabaseService (db/service.py)            *)
(***************************************************************************)
EmptyDb ==
    [servers |-> <<>>, subnets |-> <<>>, channels |-> <<>>, users |-> <<>>, messages |-> <<>>,
     backfill_jobs |-> <<>>]

\* rows of the messages table carrying identifier id
RowsOf(d, id) == {i \in 1..Len(d.messages) : d.messages[i].message_id = id}
Stored(d, id) == RowsOf(d, id) # {}
StoredIds(d) == {d.messages[i].message_id : i \in 1..Len(d.messages)}

\* Message(**message_data): the columns given, the others at their defaults
MessageRow(message_data) ==
    [message_id |-> message_data.message_id,
     channel_id |-> message_data.channel_id,
     user_id |-> message_data.user_id,
     content |-> message_data.content,
     timestamp |-> message_data.timestamp,
     edited_timestamp |-> message_data.edited_timestamp,
     deleted |-> FALSE,
     deleted_at |-> "None"]

\* mutant: the identifier is compared with the newest row only
M_MessagePkConflictLastRow(d, row) ==
    Len(d.messages) > 0 /\ d.messages[Len(d.messages)].message_id = row.message_id

\* what makes the INSERT of a message row fail with IntegrityError
MessagePkConflict(d, row) == Stored(d, row.message_id)
MessageFkOrNull(d, row) ==
    \/ row.channel_id \notin DOMAIN d.channels
    \/ row.user_id \notin DOMAIN d.users
    \/ row.timestamp = "None"

\* mutant: messages.message_id carries no uniqueness constraint
M_InsertMessageNoUnique(d, message_data) ==
    LET row == MessageRow(message_data)
    IN  IF MessageFkOrNull(d, row)
        THEN [db |-> d, result |-> "None", raised |-> FALSE]
        ELSE [db |-> [d EXCEPT !.messages = Append(@, row)],
              result |-> "Message", raised |-> FALSE]

\* mutant: on a conflict the stored row is overwritten with the record (a merge)
M_InsertMessageMerge(d, message_data) ==
    LET row == MessageRow(message_data)
    IN  IF MessageFkOrNull(d, row)
        THEN [db |-> d, result |-> "None", raised |-> FALSE]
        ELSE IF MessagePkConflict(d, row)
             THEN [db |-> [d EXCEPT !.messages =
                              [i \in DOMAIN @ |-> IF @[i].message_id = row.message_id
                                                  THEN row ELSE @[i]]],
                   result |-> "None", raised |-> FALSE]
             ELSE [db |-> [d EXCEPT !.messages = Append(@, row)],
                   result |-> "Message", raised |-> FALSE]

\* insert_message: add and commit; any IntegrityError is rolled back and None returned
InsertMessage(d, message_data) ==
    LET row == MessageRow(message_data)
    IN  IF MessagePkConflict(d, row) \/ MessageFkOrNull(d, row)
        THEN [db |-> d, result |-> "None", raised |-> FALSE]
        ELSE [db |-> [d EXCEPT !.messages = Append(@, row)],
              result |-> "Message", raised |-> FALSE]

\* upsert_server: lookup, then update or insert
UpsertServer(d, server_id, name) ==
    [db |-> [d EXCEPT !.servers =
                 (server_id :> [name |-> name, icon_url |-> "None"]) @@ @],
     raised |-> FALSE]

\* the SELECT of upsert_channel / upsert_user
ChannelExists(d, channel_id) == channel_id \in DOMAIN d.channels
UserExists(d, user_id) == user_id \in DOMAIN d.users

\* upsert_channel after its SELECT returned `exists`: UPDATE or INSERT, then commit.
\* The session error is re-raised by get_session after the rollback.
UpsertChannelWrite(d, exists, a) ==
    IF exists
    THEN IF a.name = "None" \/ (a.subnet_id # 0 /\ a.subnet_id \notin DOMAIN d.subnets)
         THEN [db |-> d, raised |-> TRUE]
         ELSE [db |-> [d EXCEPT !.channels[a.channel_id] =
                          [@ EXCEPT !.name = a.name, !.subnet_id = a.subnet_id,
                                    !.topic = a.topic, !.category = a.category,
                                    !.position = a.position]],
               raised |-> FALSE]
    ELSE IF \/ a.channel_id \in DOMAIN d.channels
            \/ a.server_id \notin DOMAIN d.servers
            \/ (a.subnet_id # 0 /\ a.subnet_id \notin DOMAIN d.subnets)
            \/ a.name = "None"
         THEN [db |-> d, raised |-> TRUE]
         ELSE [db |-> [d EXCEPT !.channels =
                          (a.channel_id :> [server_id |-> a.server_id, name |-> a.name,
                                            subnet_id |-> a.subnet_id, topic |-> a.topic,
                                            category |-> a.category,
                                            position |-> a.position]) @@ @],
               raised |-> FALSE]

UpsertChannel(d, a) == UpsertChannelWrite(d, ChannelExists(d, a.channel_id), a)

\* mutant: an existing user row is left as it is (insert if absent)
M_UpsertUserInsertOnly(d, exists, a) ==
    IF a.username = "None" \/ (~exists /\ a.user_id \in DOMAIN d.users)
    THEN [db |-> d, raised |-> TRUE]
    ELSE IF exists
         THEN [db |-> d, raised |-> FALSE]
         ELSE [db |-> [d EXCEPT !.users =
                          (a.user_id :> [username |-> a.username,
                                         discriminator |-> a.discriminator,
                                         display_name |-> a.display_name,
                                         avatar_url |-> a.avatar_url,
                                         bot |-> a.bot]) @@ @],
               raised |-> FALSE]

\* mutant: the row is always inserted, whatever the SELECT returned
M_UpsertUserAlwaysInserts(d, exists, a) ==
    IF a.username = "None" \/ a.user_id \in DOMAIN d.users
    THEN [db |-> d, raised |-> TRUE]
    ELSE [db |-> [d EXCEPT !.users =
                     (a.user_id :> [username |-> a.username,
                                    discriminator |-> a.discriminator,
                                    display_name |-> a.display_name,
                                    avatar_url |-> a.avatar_url,
                                    bot |-> a.bot]) @@ @],
          raised |-> FALSE]

\* upsert_user after its SELECT returned `exists`
UpsertUserWrite(d, exists, a) ==
    LET row == [username |-> a.username, discriminator |-> a.discriminator,
                display_name |-> a.display_name, avatar_url |-> a.avatar_url,
                bot |-> a.bot]
    IN  IF a.username = "None" \/ (~exists /\ a.user_id \in DOMAIN d.users)
        THEN [db |-> d, raised |-> TRUE]
        ELSE IF exists
             THEN [db |-> [d EXCEPT !.users[a.user_id] = row], raised |-> FALSE]
             ELSE [db |-> [d EXCEPT !.users = (a.user_id :> row) @@ @], raised |-> FALSE]

UpsertUser(d, a) == UpsertUserWrite(d, UserExists(d, a.user_id), a)

\* setattr for every keyword that names a column
ApplyKwargs(row, kwargs) ==
    [c \in DOMAIN row |-> IF c \in DOMAIN kwargs THEN kwargs[c] ELSE row[c]]

\* update_message: None when the identifier is unknown; the UPDATE may violate a
\* constraint, and the session error is then re-raised
UpdateMessage(d, message_id, kwargs) ==
    IF ~Stored(d, message_id)
    THEN [db |-> d, result |-> "None", raised |-> FALSE]
    ELSE LET i == CHOOSE j \in RowsOf(d, message_id) : \A k \in RowsOf(d, message_id) : j <= k
             row == ApplyKwargs(d.messages[i], kwargs)
             others == [d EXCEPT !.messages = SubSeq(@, 1, i - 1) \o SubSeq(@, i + 1, Len(@))]
         IN  IF MessagePkConflict(others, row) \/ MessageFkOrNull(d, row)
             THEN [db |-> d, result |-> "None", raised |-> TRUE]
             ELSE [db |-> [d EXCEPT !.messages[i] = row],
                   result |-> "Message", raised |-> FALSE]

\* mark_message_deleted: True when the row was found
MarkMessageDeleted(d, message_id) ==
    IF ~Stored(d, message_id)
    THEN [db |-> d, result |-> FALSE, raised |-> FALSE]
    ELSE [db |-> [d EXCEPT !.messages =
                     [i \in DOMAIN @ |->
                        IF @[i].message_id = message_id
                        THEN [@[i] EXCEPT !.deleted = TRUE, !.deleted_at = "utcnow"]
                        ELSE @[i]]],
          result |-> TRUE, raised |-> FALSE]

\* upsert_subnet: lookup by name; a new row takes the next value of the id sequence
SubnetIdOf(d, name) == {s \in DOMAIN d.subnets : d.subnets[s].name = name}
UpsertSubnet(d, name) ==
    IF SubnetIdOf(d, name) # {}
    THEN [db |-> d, raised |-> FALSE]
    ELSE [db |-> [d EXCEPT !.subnets =
                     ((Cardinality(DOMAIN d.subnets) + 1) :> [name |-> name]) @@ @],
          raised |-> FALSE]

\* link_channel_to_subnet: False when the subnet or the channel is unknown
LinkChannelToSubnet(d, channel_id, subnet_name) ==
    IF SubnetIdOf(d, subnet_name) = {} \/ channel_id \notin DOMAIN d.channels
    THEN [db |-> d, result |-> FALSE, raised |-> FALSE]
    ELSE [db |-> [d EXCEPT !.channels[channel_id].subnet_id =
                     CHOOSE s \in SubnetIdOf(d, subnet_name) : TRUE],
          result |-> TRUE, raised |-> FALSE]

\* create_backfill_job: a row with the next id of the sequence, status 'pending',
\* the column defaults for the rest; an unknown channel violates the foreign key
CreateBackfillJob(d, channel_id) ==
    IF channel_id \notin DOMAIN d.channels
    THEN [db |-> d, result |-> "None", raised |-> TRUE]
    ELSE [db |-> [d EXCEPT !.backfill_jobs =
                     Append(@, [channel_id |-> channel_id, start_time |-> "utcnow",
                                end_time |-> "None", status |-> "pending",
                                messages_imported |-> 0, error_message |-> "None"])],
          result |-> "BackfillJob", raised |-> FALSE]

\* update_backfill_job: setattr for every keyword that names a column of the row
\* with that id, None when there is no such row
UpdateBackfillJob(d, job_id, kwargs) ==
    IF job_id \notin DOMAIN d.backfill_jobs
    THEN [db |-> d, result |-> "None", raised |-> FALSE]
    ELSE [db |-> [d EXCEPT !.backfill_jobs[job_id] = ApplyKwargs(@, kwargs)],
          result |-> "BackfillJob", raised |-> FALSE]

\* the signature defaults of the query methods
DefaultLimit == 100
SearchLimit == 50
\* include_deleted: bool = False, as the caller passed it or left it out
IncludeDeleted(arg) == arg = "True"

\* position of a timestamp on the time line (None sorts apart and matches no range)
TsOrd(t) ==
    CASE t = "2024-01-01" -> 1
      [] t = "2024-01-02" -> 2
      [] t = "2024-01-03" -> 3
      [] OTHER -> 0

\* content ILIKE '%search_term%'
ILike(content, search_term) ==
    CASE search_term = "GM" -> content = "gm"
      [] search_term = "ed" -> content \in {"edit", "relayed"}
      [] search_term = "" -> TRUE
      [] OTHER -> FALSE

\* ORDER BY timestamp DESC over the rows at the positions S (rows of equal
\* timestamp in storage order)
RECURSIVE OrderByTimestampDesc(_, _)
OrderByTimestampDesc(d, S) ==
    IF S = {} THEN <<>>
    ELSE LET i == CHOOSE x \in S : \A y \in S :
                     \/ TsOrd(d.messages[x].timestamp) > TsOrd(d.messages[y].timestamp)
                     \/ /\ TsOrd(d.messages[x].timestamp) = TsOrd(d.messages[y].timestamp)
                        /\ x <= y
         IN  <<d.messages[i]>> \o OrderByTimestampDesc(d, S \ {i})

\* LIMIT limit OFFSET offset
Page(rows, limit, offset) ==
    SubSeq(rows, offset + 1, IF offset + limit < Len(rows) THEN offset + limit ELSE Len(rows))

\* JOIN channels JOIN subnets WHERE subnets.name = subnet_name
InSubnet(d, row, subnet_name) ==
    /\ row.channel_id \in DOMAIN d.channels
    /\ d.channels[row.channel_id].subnet_id \in SubnetIdOf(d, subnet_name)

\* get_messages_by_subnet
GetMessagesBySubnet(d, subnet_name, limit, offset, include_deleted) ==
    Page(OrderByTimestampDesc(d, {i \in DOMAIN d.messages :
            /\ InSubnet(d, d.messages[i], subnet_name)
            /\ (include_deleted \/ ~d.messages[i].deleted)}), limit, offset)

\* get_messages_by_channel
GetMessagesByChannel(d, channel_id, limit, offset, include_deleted) ==
    Page(OrderByTimestampDesc(d, {i \in DOMAIN d.messages :
            /\ d.messages[i].channel_id = channel_id
            /\ (include_deleted \/ ~d.messages[i].deleted)}), limit, offset)

\* get_messages_by_timerange: channel_id 0 and subnet_name "None" are the
\* arguments left at None
GetMessagesByTimerange(d, start_time, end_time, channel_id, subnet_name) ==
    OrderByTimestampDesc(d, {i \in DOMAIN d.messages :
        /\ d.messages[i].timestamp # "None"
        /\ TsOrd(d.messages[i].timestamp) >= TsOrd(start_time)
        /\ TsOrd(d.messages[i].timestamp) <= TsOrd(end_time)
        /\ ~d.messages[i].deleted
        /\ (channel_id # 0 => d.messages[i].channel_id = channel_id)
        /\ (subnet_name # "None" => InSubnet(d, d.messages[i], subnet_name))})

\* search_messages
SearchMessages(d, search_term, subnet_name, limit) ==
    Page(OrderByTimestampDesc(d, {i \in DOMAIN d.messages :
            /\ ILike(d.messages[i].content, search_term)
            /\ ~d.messages[i].deleted
            /\ (subnet_name # "None" => InSubnet(d, d.messages[i], subnet_name))}),
         limit, 0)

\* the identifiers of the rows a query returned
IdsOfRows(rows) == [i \in DOMAIN rows |-> rows[i].message_id]

(***************************************************************************)
(* import_json_file (scripts/import_historical_exports.py)                 *)
(***************************************************************************)
\* upsert_channel(channel_id=..., server_id=..., name=..., topic=...): the other
\* parameters take their defaults, subnet_id=None, category=None, position=None
ImportChannelArgs(d, server_id) ==
    LET channel_data == Get(d, "channel", <<>>)
    IN  [channel_id |-> IdOf(channel_data), server_id |-> server_id,
         name |-> Get(channel_data, "name", "Unknown"),
         subnet_id |-> 0, topic |-> Get(channel_data, "topic", "None"),
         category |-> "None", position |-> 0]

\* upsert_user(user_id=author_id, username=..., ...) from msg_data['author']
ImportUserArgs(msg_data) ==
    LET author == Get(msg_data, "author", <<>>)
    IN  [user_id |-> IdOf(author),
         username |-> Get(author, "name", "Unknown"),
         discriminator |-> Get(author, "discriminator", "None"),
         display_name |-> Get(author, "nickname", "None"),
         avatar_url |-> Get(author, "avatarUrl", "None"),
         bot |-> Get(author, "isBot", FALSE)]

\* msg_data.get('timestamp', msg_data.get('timestampEdited'))
TimestampStr(msg_data) == Get(msg_data, "timestamp", Get(msg_data, "timestampEdited", "None"))

\* mutant: the row is keyed by the identifier of the author
M_ImportMessageDataAuthorKey(msg_data, channel_id) ==
    [message_id |-> IdOf(Get(msg_data, "author", <<>>)),
     channel_id |-> channel_id,
     user_id |-> IdOf(Get(msg_data, "author", <<>>)),
     content |-> Get(msg_data, "content", ""),
     timestamp |-> ParseTimestamp(TimestampStr(msg_data)),
     edited_timestamp |-> IF Get(msg_data, "timestampEdited", "None") # "None"
                          THEN ParseTimestamp(msg_data["timestampEdited"])
                          ELSE "None"]

\* the message_data dictionary handed to insert_message
ImportMessageData(msg_data, channel_id) ==
    [message_id |-> ParseInt(msg_data["id"]),
     channel_id |-> channel_id,
     user_id |-> IdOf(Get(msg_data, "author", <<>>)),
     content |-> Get(msg_data, "content", ""),
     timestamp |-> ParseTimestamp(TimestampStr(msg_data)),
     edited_timestamp |-> IF Get(msg_data, "timestampEdited", "None") # "None"
                          THEN ParseTimestamp(msg_data["timestampEdited"])
                          ELSE "None"]

\* the body of the for loop after upsert_user returned: "skip" is the continue on a
\* missing timestamp, "error" the except branch (KeyError on msg_data['id'])
ImportRecord(d, msg_data, channel_id) ==
    IF TimestampStr(msg_data) = "None"
    THEN [db |-> d, outcome |-> "skip"]
    ELSE IF "id" \notin DOMAIN msg_data
         THEN [db |-> d, outcome |-> "error"]
         ELSE LET r == InsertMessage(d, ImportMessageData(msg_data, channel_id))
              IN  [db |-> r.db,
                   outcome |-> IF r.result # "None" THEN "imported" ELSE "duplicate"]

Messages(p) == Get(data[p], "messages", <<>>)
ChannelIdOf(p) == IdOf(Get(data[p], "channel", <<>>))

\* observation of a finished run
Finished(p) ==
    [hist EXCEPT !.endDb = db',
                 !.fedIds = @ \cup {IdOf(Messages(p)[i]) : i \in 1..Len(Messages(p))}]

\* the for loop moves to the next record, or the function reaches its return
NextRecord(p) ==
    IF idx[p] < Len(Messages(p))
    THEN /\ idx' = [idx EXCEPT ![p] = @ + 1]
         /\ pc' = [pc EXCEPT ![p] = "user_select"]
    ELSE /\ idx' = [idx EXCEPT ![p] = @ + 1]
         /\ pc' = [pc EXCEPT ![p] = "return"]

MessagesOf(f) == IF Parses(f) THEN Get(f, "messages", <<>>) ELSE <<>>
WellFormed(f) ==
    /\ Parses(f)
    /\ \A i \in 1..Len(MessagesOf(f)) : {"id", "timestamp"} \subseteq DOMAIN MessagesOf(f)[i]
IdsOfFile(f) == {IdOf(MessagesOf(f)[i]) : i \in 1..Len(MessagesOf(f))}

\* json.load of the file, and the locals of the function; a file that does not
\* parse raises in json.load, the outer except logs it and returns 0
StartImport(p, f) ==
    /\ pc[p] \in {"idle", "done"}
    /\ hist.runs[p] < MaxRuns
    /\ data' = [data EXCEPT ![p] = IF Parses(f) THEN f ELSE NoFile]
    /\ pc' = [pc EXCEPT ![p] = IF Parses(f) THEN "channel_select" ELSE "done"]
    /\ idx' = [idx EXCEPT ![p] = 0]
    /\ imported_count' = [imported_count EXCEPT ![p] = 0]
    /\ skipped_count' = [skipped_count EXCEPT ![p] = 0]
    /\ ret' = [ret EXCEPT ![p] = 0]
    /\ hist' = [hist EXCEPT
                  !.runs[p] = @ + 1,
                  !.startDb[p] = db,
                  !.rerun[p] = (pc[p] = "done" /\ f = data[p] /\ db = hist.endDb),
                  !.failed[p] = ~Parses(f),
                  !.clean = @ /\ WellFormed(f) /\ ServerId \in DOMAIN db.servers,
                  !.overlap = @ \/ (IdsOfFile(f) \cap hist.fedIds # {}
                                     /\ IdsOfFile(f) # hist.fedIds)]
    /\ UNCHANGED <<db, found, call>>

\* upsert_channel, its SELECT
UpsertChannelSelect(p) ==
    /\ pc[p] = "channel_select"
    /\ found' = [found EXCEPT ![p] = ChannelExists(db, ChannelIdOf(p))]
    /\ pc' = [pc EXCEPT ![p] = "channel_write"]
    /\ UNCHANGED <<db, data, idx, imported_count, skipped_count, ret, call, batch, ex, hist>>

\* upsert_channel, its write and commit; an error reaches the outer except: return 0
UpsertChannelCommit(p) ==
    /\ pc[p] = "channel_write"
    /\ LET r == UpsertChannelWrite(db, found[p], ImportChannelArgs(data[p], ServerId))
       IN  IF r.raised
           THEN /\ db' = db
                /\ ret' = [ret EXCEPT ![p] = 0]
                /\ pc' = [pc EXCEPT ![p] = "done"]
                /\ idx' = idx
                /\ hist' = [Finished(p) EXCEPT !.failed[p] = TRUE]
           ELSE /\ db' = r.db
                /\ ret' = ret
                /\ idx' = [idx EXCEPT ![p] = 1]
                /\ pc' = [pc EXCEPT ![p] =
                             IF Len(Messages(p)) = 0 THEN "return" ELSE "user_select"]
                /\ hist' = [hist EXCEPT !.failed[p] = FALSE]
    /\ UNCHANGED <<data, found, imported_count, skipped_count, call, batch, ex>>

\* msg_data.get('author', {}) and upsert_user, its SELECT.  On a record that is not
\* an object, msg_data.get raises; the per-message handler calls msg_data.get('id')
\* and raises again, which reaches the outer except: return 0
UpsertUserSelect(p) ==
    /\ pc[p] = "user_select"
    /\ IF IsObject(Messages(p)[idx[p]])
       THEN /\ found' = [found EXCEPT ![p] =
                           UserExists(db, ImportUserArgs(Messages(p)[idx[p]]).user_id)]
            /\ pc' = [pc EXCEPT ![p] = "user_write"]
            /\ UNCHANGED <<ret, hist>>
       ELSE /\ ret' = [ret EXCEPT ![p] = 0]
            /\ pc' = [pc EXCEPT ![p] = "done"]
            /\ hist' = [hist EXCEPT !.failed[p] = TRUE, !.endDb = db]
            /\ found' = found
    /\ UNCHANGED <<db, data, idx, imported_count, skipped_count, call, batch, ex>>

\* observation: the identifier process p is about to hand to insert_message, and
\* whether another process stands before insert_message with the same identifier
\* while no row carries it
PendingId(p) == IdOf(Messages(p)[idx[p]])
RaceBegins(p) ==
    /\ TimestampStr(Messages(p)[idx[p]]) # "None"
    /\ PendingId(p) # 0
    /\ ~Stored(db, PendingId(p))
    /\ \E q \in Procs \ {p} :
          /\ pc[q] = "message"
          /\ TimestampStr(Messages(q)[idx[q]]) # "None"
          /\ PendingId(q) = PendingId(p)

\* upsert_user, its write and commit; an error reaches the per-message except
UpsertUserCommit(p) ==
    /\ pc[p] = "user_write"
    /\ LET r == UpsertUserWrite(db, found[p], ImportUserArgs(Messages(p)[idx[p]]))
       IN  IF r.raised
           THEN /\ db' = db
                /\ hist' = [hist EXCEPT !.upsertRaised[p] = TRUE]
                /\ NextRecord(p)
           ELSE /\ db' = r.db
                /\ hist' = IF RaceBegins(p)
                           THEN [hist EXCEPT !.race = [id |-> PendingId(p),
                                                      outcome |-> [q \in Procs |-> "pending"]]]
                           ELSE hist
                /\ idx' = idx
                /\ pc' = [pc EXCEPT ![p] = "message"]
    /\ UNCHANGED <<data, found, imported_count, skipped_count, ret, call, batch, ex>>

\* timestamp parsing, message_data, insert_message and the two counters
ImportMessage(p) ==
    /\ pc[p] = "message"
    /\ LET msg_data == Messages(p)[idx[p]]
           r == ImportRecord(db, msg_data, ChannelIdOf(p))
       IN  /\ db' = r.db
           /\ imported_count' = [imported_count EXCEPT ![p] =
                                    IF r.outcome = "imported" THEN @ + 1 ELSE @]
           /\ skipped_count' = [skipped_count EXCEPT ![p] =
                                   IF r.outcome = "duplicate" THEN @ + 1 ELSE @]
           /\ hist' = IF hist.race.outcome[p] = "pending"
                      THEN [hist EXCEPT !.race.outcome[p] = r.outcome]
                      ELSE hist
    /\ NextRecord(p)
    /\ UNCHANGED <<data, found, ret, call, batch, ex>>

\* return imported_count
ReturnCount(p) ==
    /\ pc[p] = "return"
    /\ ret' = [ret EXCEPT ![p] = imported_count[p]]
    /\ pc' = [pc EXCEPT ![p] = "done"]
    /\ db' = db
    /\ hist' = Finished(p)
    /\ UNCHANGED <<data, idx, found, imported_count, skipped_count, call, batch, ex>>

(***************************************************************************)
(* setup_database (scripts/setup_db.py)                                    *)
(***************************************************************************)
\* upsert_channel(channel_id, server_id, name=<subnet name>, subnet_id=None)
SetupChannelArgs(channel_id) ==
    [channel_id |-> channel_id, server_id |-> ServerId, name |-> "subnet",
     subnet_id |-> 0, topic |-> "None", category |-> "None", position |-> 0]

RECURSIVE SetupChannels(_, _)
SetupChannels(d, chs) ==
    IF chs = {} THEN d
    ELSE LET c == CHOOSE x \in chs : TRUE
         IN  SetupChannels(UpsertChannel(d, SetupChannelArgs(c)).db, chs \ {c})

\* create the server row, then one channel per configured subnet
SetupDb ==
    /\ \A p \in Procs : pc[p] \in {"idle", "done"}
    /\ \E chs \in SUBSET ChannelIds :
          db' = SetupChannels(UpsertServer(db, ServerId, "Bittensor Discord").db, chs)
    /\ UNCHANGED <<pc, data, idx, found, imported_count, skipped_count, ret, call, batch, ex, hist>>

(***************************************************************************)
(* Specifications                                                          *)
(***************************************************************************)
\* no main() of an import script and no export run in progress
NoBatch == [script |-> "none", pc |-> "exit"]
NoExport == [pc |-> "idle"]

Init ==
    /\ db = EmptyDb
    /\ pc = [p \in Procs |-> "idle"]
    /\ data = [p \in Procs |-> NoFile]
    /\ idx = [p \in Procs |-> 0]
    /\ found = [p \in Procs |-> FALSE]
    /\ imported_count = [p \in Procs |-> 0]
    /\ skipped_count = [p \in Procs |-> 0]
    /\ ret = [p \in Procs |-> 0]
    /\ call = [op |-> "none", arg |-> 0, id |-> 0, result |-> "None", raised |-> FALSE,
               rows |-> <<>>]
    /\ batch = NoBatch
    /\ ex = NoExport
    /\ hist = [runs |-> [p \in Procs |-> 0],
               startDb |-> [p \in Procs |-> EmptyDb],
               rerun |-> [p \in Procs |-> FALSE],
               failed |-> [p \in Procs |-> FALSE],
               upsertRaised |-> [p \in Procs |-> FALSE],
               race |-> [id |-> 0, outcome |-> [p \in Procs |-> "none"]],
               endDb |-> EmptyDb,
               fedIds |-> {},
               clean |-> TRUE,
               overlap |-> FALSE,
               everStored |-> {}]

ImportStep(p) ==
    \/ UpsertChannelSelect(p)
    \/ UpsertChannelCommit(p)
    \/ UpsertUserSelect(p)
    \/ UpsertUserCommit(p)
    \/ ImportMessage(p)
    \/ ReturnCount(p)

\* the pipeline as it is run: import runs one after the other, and setup_db once,
\* before or between them
Next ==
    \/ (ServerId \notin DOMAIN db.servers /\ SetupDb)
    \/ \E f \in ExportFiles : StartImport(1, f) /\ UNCHANGED <<batch, ex>>
    \/ ImportStep(1)

Spec == Init /\ [][Next]_vars

(***************************************************************************)
(* The service called directly                                             *)
(***************************************************************************)
\* message_data dictionaries a caller may pass to insert_message
MessageDatas ==
    [message_id : MsgIds, channel_id : ChannelIds, user_id : UserIds,
     content : {"gm"}, timestamp : {"2024-01-01", "None"}, edited_timestamp : {"None"}]

\* keyword arguments a caller may pass to update_message
UpdateKwargs ==
    {[content |-> "edit", edited_timestamp |-> "2024-01-03"]}
        \cup {[message_id |-> m] : m \in MsgIds}

Authors == {AuthorA, AuthorA2, AuthorB}

\* a call of the service returns: its outcome, and for a query the rows it returned
Called(op, arg, id, r) ==
    /\ db' = r.db
    /\ call' = [op |-> op, arg |-> arg, id |-> id, result |-> r.result, raised |-> r.raised,
                rows |-> IF "rows" \in DOMAIN r THEN IdsOfRows(r.rows) ELSE <<>>]
    /\ hist' = [hist EXCEPT !.everStored = @ \cup StoredIds(r.db)]
    /\ UNCHANGED <<pc, data, idx, found, imported_count, skipped_count, ret, batch, ex>>

SvcUpsertServer ==
    LET r == UpsertServer(db, ServerId, "Bittensor Discord")
    IN  Called("upsert_server", ServerId, 0, [db |-> r.db, result |-> "Server", raised |-> r.raised])

SvcUpsertChannel ==
    \E a \in {SetupChannelArgs(c) : c \in ChannelIds} :
        LET r == UpsertChannel(db, a)
        IN  Called("upsert_channel", a, 0,
                   [db |-> r.db, result |-> "Channel", raised |-> r.raised])

SvcUpsertUser ==
    \E author \in Authors :
        LET a == ImportUserArgs([author |-> author])
            r == UpsertUser(db, a)
        IN  Called("upsert_user", a, 0, [db |-> r.db, result |-> "User", raised |-> r.raised])

SvcInsertMessage ==
    \E message_data \in MessageDatas :
        Called("insert_message", message_data, message_data.message_id,
               InsertMessage(db, message_data))

SvcUpdateMessage ==
    \E id \in MsgIds, kwargs \in UpdateKwargs :
        Called("update_message", kwargs, id, UpdateMessage(db, id, kwargs))

SvcMarkMessageDeleted ==
    \E id \in MsgIds :
        LET r == MarkMessageDeleted(db, id)
        IN  Called("mark_message_deleted", id, id,
                   [db |-> r.db, result |-> IF r.result THEN "True" ELSE "False",
                    raised |-> r.raised])

SubnetNames == {"sn23"}

SvcUpsertSubnet ==
    \E name \in SubnetNames :
        LET r == UpsertSubnet(db, name)
        IN  Called("upsert_subnet", name, 0, [db |-> r.db, result |-> "Subnet", raised |-> r.raised])

SvcLinkChannelToSubnet ==
    \E channel_id \in ChannelIds, name \in SubnetNames :
        LET r == LinkChannelToSubnet(db, channel_id, name)
        IN  Called("link_channel_to_subnet", [channel_id |-> channel_id, subnet_name |-> name], 0,
                   [db |-> r.db, result |-> IF r.result THEN "True" ELSE "False",
                    raised |-> r.raised])

\* how a caller may pass include_deleted: left out, or given
IncludeDeletedArgs == {"omitted", "True", "False"}

SvcGetMessagesBySubnet ==
    \E name \in SubnetNames, inc \in IncludeDeletedArgs :
        Called("get_messages_by_subnet", [subnet_name |-> name, include_deleted |-> inc], 0,
               [db |-> db, result |-> "Rows", raised |-> FALSE,
                rows |-> GetMessagesBySubnet(db, name, DefaultLimit, 0, IncludeDeleted(inc))])

SvcGetMessagesByChannel ==
    \E channel_id \in ChannelIds, inc \in IncludeDeletedArgs :
        Called("get_messages_by_channel", [channel_id |-> channel_id, include_deleted |-> inc], 0,
               [db |-> db, result |-> "Rows", raised |-> FALSE,
                rows |-> GetMessagesByChannel(db, channel_id, DefaultLimit, 0,
                                              IncludeDeleted(inc))])

SvcGetMessagesByTimerange ==
    \E channel_id \in ChannelIds \cup {0}, name \in SubnetNames \cup {"None"} :
        Called("get_messages_by_timerange",
               [start_time |-> "2024-01-01", end_time |-> "2024-01-02",
                channel_id |-> channel_id, subnet_name |-> name], 0,
               [db |-> db, result |-> "Rows", raised |-> FALSE,
                rows |-> GetMessagesByTimerange(db, "2024-01-01", "2024-01-02",
                                                channel_id, name)])

SvcSearchMessages ==
    \E term \in {"GM", "ed"}, name \in SubnetNames \cup {"None"} :
        Called("search_messages", [search_term |-> term, subnet_name |-> name], 0,
               [db |-> db, result |-> "Rows", raised |-> FALSE,
                rows |-> SearchMessages(db, term, name, SearchLimit)])

NextService ==
    \/ SvcUpsertServer
    \/ SvcUpsertSubnet
    \/ SvcLinkChannelToSubnet
    \/ SvcGetMessagesBySubnet
    \/ SvcGetMessagesByChannel
    \/ SvcGetMessagesByTimerange
    \/ SvcSearchMessages
    \/ SvcUpsertChannel
    \/ SvcUpsertUser
    \/ SvcInsertMessage
    \/ SvcUpdateMessage
    \/ SvcMarkMessageDeleted

\* any sequence of calls of the service, one at a time
SpecService == Init /\ [][NextService]_vars

(***************************************************************************)
(* Two import processes at once                                            *)
(***************************************************************************)
ConcurrentRecords == {RecPlain, RecEdited}
ConcurrentFiles ==
    {[channel |-> ChannelMeta, messages |-> m] : m \in SeqsUpTo(ConcurrentRecords, MaxFileLen)}

\* the store as setup_db leaves it, with or without the channel registered, and
\* both processes past json.load of their file
InitConcurrent ==
    /\ \E chs \in SUBSET ChannelIds :
          db = SetupChannels(UpsertServer(EmptyDb, ServerId, "Bittensor Discord").db, chs)
    /\ pc = [p \in Procs |-> "channel_select"]
    /\ data \in [Procs -> ConcurrentFiles]
    /\ idx = [p \in Procs |-> 0]
    /\ found = [p \in Procs |-> FALSE]
    /\ imported_count = [p \in Procs |-> 0]
    /\ skipped_count = [p \in Procs |-> 0]
    /\ ret = [p \in Procs |-> 0]
    /\ call = [op |-> "none", arg |-> 0, id |-> 0, result |-> "None", raised |-> FALSE,
               rows |-> <<>>]
    /\ batch = NoBatch
    /\ ex = NoExport
    /\ hist = [runs |-> [p \in Procs |-> 1],
               startDb |-> [p \in Procs |-> db],
               rerun |-> [p \in Procs |-> FALSE],
               failed |-> [p \in Procs |-> FALSE],
               upsertRaised |-> [p \in Procs |-> FALSE],
               race |-> [id |-> 0, outcome |-> [p \in Procs |-> "none"]],
               endDb |-> EmptyDb,
               fedIds |-> {},
               clean |-> TRUE,
               overlap |-> FALSE,
               everStored |-> {}]

\* the steps of the two processes interleave at the statements that reach the database
NextConcurrent == \E p \in Procs : ImportStep(p)

SpecConcurrent == InitConcurrent /\ [][NextConcurrent]_vars

(***************************************************************************)
(* main() of scripts/import_historical_exports.py and of                   *)
(* scripts/batch_import_all.py                                             *)
(***************************************************************************)
\* the files a run may find: one that does not parse, the document {}, and export
\* files of valid records, of a record without timestamp, of an entry that is null
BatchFiles ==
    {Malformed, EmptyDoc,
     [channel |-> ChannelMeta, messages |-> <<RecPlain>>],
     [channel |-> ChannelMeta, messages |-> <<RecEdited, RecNoTimestamp>>],
     [channel |-> ChannelMeta, messages |-> <<RecPlain, RecNull, RecEdited>>]}

\* json_files: what the glob of the script returned
BatchLists == SeqsUpTo(BatchFiles, MaxRuns)

ImportScripts == {"import_historical_exports", "batch_import_all"}

\* main() entered, the file list found
BatchStarted(script, json_files) ==
    [script |-> script, json_files |-> json_files, pc |-> "start", i |-> 1,
     total_imported |-> 0, total_skipped |-> 0, successful_files |-> 0, failed_files |-> 0,
     attempts |-> [k \in 1..Len(json_files) |-> 0], reported |-> {}, failedIdx |-> {},
     summary |-> FALSE]

\* import_historical_exports.main: `if not json_files: return 1`
MainStart ==
    /\ batch.script = "import_historical_exports"
    /\ batch.pc = "start"
    /\ batch' = [batch EXCEPT !.pc = IF Len(batch.json_files) = 0 THEN "exit" ELSE "loop"]
    /\ UNCHANGED <<db, pc, data, idx, found, imported_count, skipped_count, ret, call, ex, hist>>

\* the loop of main calls import_json_file on the next file
MainImportFile ==
    /\ batch.script = "import_historical_exports"
    /\ batch.pc = "loop"
    /\ batch.i <= Len(batch.json_files)
    /\ StartImport(1, batch.json_files[batch.i])
    /\ batch' = [batch EXCEPT !.pc = "importing",
                              !.attempts[batch.i] = @ + 1,
                              !.reported = IF Parses(batch.json_files[batch.i])
                                           THEN @ ELSE @ \cup {batch.i}]
    /\ ex' = ex

\* mutant: the loop is left at the first file that imported nothing
M_MainCollectStopsOnFailure ==
    /\ batch.script = "import_historical_exports"
    /\ batch.pc = "importing"
    /\ pc[1] = "done"
    /\ batch' = [batch EXCEPT !.pc = IF ret[1] = 0 THEN "exit" ELSE "loop",
                              !.i = @ + 1,
                              !.total_imported = @ + ret[1]]
    /\ UNCHANGED <<db, pc, data, idx, found, imported_count, skipped_count, ret, call, ex, hist>>

\* import_json_file returned: total_imported += imported, next file
MainCollect ==
    /\ batch.script = "import_historical_exports"
    /\ batch.pc = "importing"
    /\ pc[1] = "done"
    /\ batch' = [batch EXCEPT !.pc = "loop",
                              !.i = @ + 1,
                              !.total_imported = @ + ret[1]]
    /\ UNCHANGED <<db, pc, data, idx, found, imported_count, skipped_count, ret, call, ex, hist>>

\* after the loop: the summary lines, return 0
MainSummary ==
    /\ batch.script = "import_historical_exports"
    /\ batch.pc = "loop"
    /\ batch.i > Len(batch.json_files)
    /\ batch' = [batch EXCEPT !.pc = "exit", !.summary = TRUE]
    /\ UNCHANGED <<db, pc, data, idx, found, imported_count, skipped_count, ret, call, ex, hist>>

\* batch_import_all.import_json_file: a JSON error and a falsy document return
\* (0, 0); otherwise `from scripts.import_historical_exports import
\* import_export_data` raises ImportError, that module defining no such name, and
\* the except Exception branch returns (0, 0).  The store is never reached.
BatchImportJsonFile(d, f) ==
    IF ~Parses(f) THEN [db |-> d, imported |-> 0, skipped |-> 0, reported |-> TRUE]
    ELSE IF DOMAIN f = {} THEN [db |-> d, imported |-> 0, skipped |-> 0, reported |-> TRUE]
    ELSE [db |-> d, imported |-> 0, skipped |-> 0, reported |-> TRUE]

\* batch_import_all.main: `if not json_files: return`
BatchStart ==
    /\ batch.script = "batch_import_all"
    /\ batch.pc = "start"
    /\ batch' = [batch EXCEPT !.pc = IF Len(batch.json_files) = 0 THEN "exit" ELSE "loop"]
    /\ UNCHANGED <<db, pc, data, idx, found, imported_count, skipped_count, ret, call, ex, hist>>

\* one turn of the loop of batch_import_all.main
BatchImportFile ==
    /\ batch.script = "batch_import_all"
    /\ batch.pc = "loop"
    /\ batch.i <= Len(batch.json_files)
    /\ LET r == BatchImportJsonFile(db, batch.json_files[batch.i])
           ok == r.imported > 0 \/ r.skipped > 0
       IN  /\ db' = r.db
           /\ batch' = [batch EXCEPT
                          !.i = @ + 1,
                          !.attempts[batch.i] = @ + 1,
                          !.reported = IF r.reported THEN @ \cup {batch.i} ELSE @,
                          !.total_imported = @ + r.imported,
                          !.total_skipped = @ + r.skipped,
                          !.successful_files = IF ok THEN @ + 1 ELSE @,
                          !.failed_files = IF ok THEN @ ELSE @ + 1,
                          !.failedIdx = IF ok THEN @ ELSE @ \cup {batch.i}]
    /\ UNCHANGED <<pc, data, idx, found, imported_count, skipped_count, ret, call, ex, hist>>

\* after the loop: IMPORT COMPLETE and the totals
BatchSummary ==
    /\ batch.script = "batch_import_all"
    /\ batch.pc = "loop"
    /\ batch.i > Len(batch.json_files)
    /\ batch' = [batch EXCEPT !.pc = "exit", !.summary = TRUE]
    /\ UNCHANGED <<db, pc, data, idx, found, imported_count, skipped_count, ret, call, ex, hist>>

\* a run of either script over a list of files, on the store as setup_db left it
InitMain ==
    /\ \E chs \in SUBSET ChannelIds :
          db = SetupChannels(UpsertServer(EmptyDb, ServerId, "Bittensor Discord").db, chs)
    /\ pc = [p \in Procs |-> "idle"]
    /\ data = [p \in Procs |-> NoFile]
    /\ idx = [p \in Procs |-> 0]
    /\ found = [p \in Procs |-> FALSE]
    /\ imported_count = [p \in Procs |-> 0]
    /\ skipped_count = [p \in Procs |-> 0]
    /\ ret = [p \in Procs |-> 0]
    /\ call = [op |-> "none", arg |-> 0, id |-> 0, result |-> "None", raised |-> FALSE,
               rows |-> <<>>]
    /\ \E script \in ImportScripts, json_files \in BatchLists :
          batch = BatchStarted(script, json_files)
    /\ ex = NoExport
    /\ hist = [runs |-> [p \in Procs |-> 0],
               startDb |-> [p \in Procs |-> db],
               rerun |-> [p \in Procs |-> FALSE],
               failed |-> [p \in Procs |-> FALSE],
               upsertRaised |-> [p \in Procs |-> FALSE],
               race |-> [id |-> 0, outcome |-> [p \in Procs |-> "none"]],
               endDb |-> EmptyDb,
               fedIds |-> {},
               clean |-> TRUE,
               overlap |-> FALSE,
               everStored |-> {}]

NextMain ==
    \/ MainStart
    \/ MainImportFile
    \/ ImportStep(1)
    \/ MainCollect
    \/ MainSummary
    \/ BatchStart
    \/ BatchImportFile
    \/ BatchSummary

SpecMain == InitMain /\ [][NextMain]_vars

\* main() is a sequential program: it keeps running until it returns
SpecMainFair == SpecMain /\ WF_vars(NextMain)

(***************************************************************************)
(* scripts/batch_historical_export.py: the exports directory, the export   *)
(* tool and main()                                                         *)
(***************************************************************************)
\* config/subnets.yaml as load_channels reads it
ChannelGeneral == [name |-> "general", channel_id |-> "1"]
ChannelDevOps == [name |-> "dev/ops", channel_id |-> "2"]
ChannelOps == [name |-> "ops", channel_id |-> "3"]
ConfiguredIds == {ChannelGeneral.channel_id, ChannelDevOps.channel_id, ChannelOps.channel_id}

\* channel_name.replace('/', '-').replace('\\', '-').replace(':', '-')
FolderName(channel_name) ==
    CASE channel_name = "dev/ops" -> "dev-ops"
      [] OTHER -> channel_name
Folders ==
    {FolderName(ChannelGeneral.name), FolderName(ChannelDevOps.name), FolderName(ChannelOps.name)}

\* '--partition', '1000': messages per file, scaled to the histories of the model
PartitionSize == 2

\* code points of the decimal digits of n
RECURSIVE Digits(_)
Digits(n) == IF n < 10 THEN <<48 + n>> ELSE Digits(n \div 10) \o <<48 + (n % 10)>>

\* what follows the folder name in the name of partition `part` of an export written
\* to <folder>/<folder>.json: ".json" for the first file, " [part N].json" for the
\* later ones, as code points
NameSuffix(part) ==
    IF part = 1 THEN <<46, 106, 115, 111, 110>>
    ELSE <<32, 91, 112, 97, 114, 116, 32>> \o Digits(part) \o <<93, 46, 106, 115, 111, 110>>

\* a < b for strings given as code points
RECURSIVE LexLess(_, _)
LexLess(a, b) ==
    IF b = <<>> THEN FALSE
    ELSE IF a = <<>> THEN TRUE
    ELSE IF Head(a) # Head(b) THEN Head(a) < Head(b)
    ELSE LexLess(Tail(a), Tail(b))

\* sorted(channel_dir.glob('*.json'))[-1]
LastByName(files) ==
    CHOOSE i \in DOMAIN files :
        \A j \in DOMAIN files : j # i => LexLess(NameSuffix(files[j].part), NameSuffix(files[i].part))

NoDir == [exists |-> FALSE, files |-> <<>>]

\* get_last_message_id: 0 stands for None
GetLastMessageId(dirs, channel_name) ==
    LET channel_dir == dirs[FolderName(channel_name)]
    IN  IF ~channel_dir.exists THEN 0
        ELSE IF channel_dir.files = <<>> THEN 0
        ELSE LET last_file == channel_dir.files[LastByName(channel_dir.files)]
             IN  IF ~last_file.readable THEN 0
                 ELSE IF last_file.ids = <<>> THEN 0
                 ELSE last_file.ids[Len(last_file.ids)]

\* channel_name.lower() in item.name.lower(), on the names of the model: a name
\* contains itself, and "dev-ops" contains "ops"
Contains(item_name, channel_name) ==
    \/ item_name = channel_name
    \/ (item_name = "dev-ops" /\ channel_name = "ops")

\* OUTPUT_DIR.iterdir(): the channel folders and the skip list file
ItemNames(e) ==
    {f \in Folders : e.dirs[f].exists}
        \cup (IF e.skip_file # {} THEN {".skip_forbidden_channels.txt"} ELSE {})

\* check_already_exported
CheckAlreadyExported(e, channel_name) ==
    \E item \in ItemNames(e) : Contains(item, channel_name)

\* the messages of a channel on the platform after the identifier `after`
\* (0: from the beginning), oldest first
RECURSIVE Range(_, _)
Range(lo, hi) == IF lo > hi THEN <<>> ELSE <<lo>> \o Range(lo + 1, hi)
MessagesAfter(e, channel_id, after) == Range(after + 1, e.platform[channel_id])

\* the newest identifier among the messages of the files, 0 when they hold none
MaxIdIn(files) ==
    LET ids == UNION {{files[i].ids[k] : k \in DOMAIN files[i].ids} : i \in DOMAIN files}
    IN  IF ids = {} THEN 0 ELSE CHOOSE m \in ids : \A n \in ids : n <= m

\* a file of the given name is written: it replaces the file of that name
WriteFile(files, f) ==
    SelectSeq(files, LAMBDA g : g.part # f.part) \o <<f>>

\* the tool writes the messages ids in files of PartitionSize, at most `count` files
RECURSIVE WritePartitions(_, _, _, _)
WritePartitions(files, ids, part, count) ==
    IF count = 0 THEN files
    ELSE IF Len(ids) <= PartitionSize
    THEN IF ids = <<>> /\ part > 1 THEN files
         ELSE WriteFile(files, [part |-> part, ids |-> ids, readable |-> TRUE])
    ELSE WritePartitions(
             WriteFile(files, [part |-> part, ids |-> SubSeq(ids, 1, PartitionSize),
                               readable |-> TRUE]),
             SubSeq(ids, PartitionSize + 1, Len(ids)), part + 1, count - 1)

\* how a run of the export tool may end: exit code 0; exit code 1 with "forbidden"
\* or with "not found" in stderr; another failure exit; TimeoutExpired
ToolOutcomes == {"ok", "forbidden", "notfound", "error", "timeout"}

\* the files in the channel folder after the tool ran: a complete export on exit
\* code 0, some of its first files when the tool was killed at the timeout,
\* nothing new otherwise
ToolWrites(e, channel, after, outcome, count) ==
    LET dir == e.dirs[FolderName(channel.name)]
    IN  CASE outcome = "ok" ->
               [exists |-> TRUE,
                files |-> WritePartitions(dir.files, MessagesAfter(e, channel.channel_id, after),
                                          1, MaxHistory)]
          [] outcome = "timeout" ->
               [exists |-> dir.exists \/ count > 0,
                files |-> WritePartitions(dir.files, MessagesAfter(e, channel.channel_id, after),
                                          1, count)]
          [] OTHER -> dir

\* export_channel: (success, is_forbidden) for the outcome of subprocess.run
ExportResult(outcome) ==
    [success |-> outcome = "ok", is_forbidden |-> outcome = "forbidden"]

\* main, its filter loop: the channels to export in this mode
RECURSIVE ToExport(_, _, _, _)
ToExport(e, channels, resume_mode, skip_list) ==
    IF channels = <<>> THEN <<>>
    ELSE LET channel == Head(channels)
             rest == ToExport(e, Tail(channels), resume_mode, skip_list)
         IN  IF channel.channel_id \in skip_list THEN rest
             ELSE IF ~resume_mode /\ CheckAlreadyExported(e, channel.name) THEN rest
             ELSE <<channel>> \o rest

\* main up to the export loop: the skip list is read, the channels are filtered;
\* with nothing to export main returns
ExMainStart(resume_mode) ==
    /\ ex.pc = "idle"
    /\ ex.runs < MaxExportRuns
    /\ pc[1] \in {"idle", "done"}
    /\ LET to_export == ToExport(ex, ex.channels, resume_mode, ex.skip_file)
       IN  ex' = [ex EXCEPT !.runs = @ + 1,
                            !.resume_mode = resume_mode,
                            !.skip_list = ex.skip_file,
                            !.to_export = to_export,
                            !.i = 1,
                            !.forbidden_channels = {},
                            !.pc = IF to_export = <<>> THEN "idle" ELSE "loop",
                            !.outcome = [c \in DOMAIN ex.outcome |-> "none"]]
    /\ UNCHANGED <<db, pc, data, idx, found, imported_count, skipped_count, ret, call, batch,
                   hist>>

\* one turn of the export loop: export_channel (the checkpoint in resume mode, the
\* tool) and the bookkeeping of main
ExExportChannel ==
    /\ ex.pc = "loop"
    /\ ex.i <= Len(ex.to_export)
    /\ \E outcome \in ex.env, count \in 0..MaxHistory :
          /\ outcome # "timeout" => count = 0
          /\ LET channel == ex.to_export[ex.i]
                 last_message_id == IF ex.resume_mode
                                    THEN GetLastMessageId(ex.dirs, channel.name) ELSE 0
                 r == ExportResult(outcome)
                 dir == ToolWrites(ex, channel, last_message_id, outcome, count)
             IN  ex' = [ex EXCEPT
                          !.dirs[FolderName(channel.name)] = dir,
                          !.i = @ + 1,
                          !.forbidden_channels =
                              IF ~r.success /\ r.is_forbidden
                              THEN @ \cup {channel.channel_id} ELSE @,
                          !.outcome[channel.channel_id] = outcome,
                          !.cp = IF ex.resume_mode
                                 THEN [called |-> TRUE, result |-> last_message_id,
                                       dir |-> ex.dirs[FolderName(channel.name)],
                                       newest |-> ex.newest[channel.channel_id]]
                                 ELSE @,
                          !.newest[channel.channel_id] =
                              IF MaxIdIn(dir.files) > @ THEN MaxIdIn(dir.files) ELSE @]
    /\ UNCHANGED <<db, pc, data, idx, found, imported_count, skipped_count, ret, call, batch,
                   hist>>

\* mutant: every channel whose export failed is appended to the skip list file
M_ExFinishListsEveryFailure ==
    /\ ex.pc = "loop"
    /\ ex.i > Len(ex.to_export)
    /\ ex' = [ex EXCEPT !.pc = "idle",
                        !.skip_file = @ \cup {c \in DOMAIN ex.outcome :
                                                 ex.outcome[c] \notin {"none", "ok"}}]
    /\ UNCHANGED <<db, pc, data, idx, found, imported_count, skipped_count, ret, call, batch,
                   hist>>

\* after the loop: the forbidden channels are appended to the skip list file
ExFinish ==
    /\ ex.pc = "loop"
    /\ ex.i > Len(ex.to_export)
    /\ ex' = [ex EXCEPT !.pc = "idle",
                        !.skip_file = @ \cup {c \in ex.forbidden_channels : c \notin ex.skip_list}]
    /\ UNCHANGED <<db, pc, data, idx, found, imported_count, skipped_count, ret, call, batch,
                   hist>>

\* the store and the importer at rest, the exports directory empty, the channel list
\* and what the tool may do given
ExportStarts(channels, env) ==
    [channels |-> channels, env |-> env,
     platform |-> [c \in ConfiguredIds |-> IF c = "1" THEN MaxHistory ELSE 1],
     dirs |-> [f \in Folders |-> NoDir],
     skip_file |-> {},
     pc |-> "idle", runs |-> 0, resume_mode |-> FALSE, skip_list |-> {},
     to_export |-> <<>>, i |-> 1, forbidden_channels |-> {},
     outcome |-> [c \in ConfiguredIds |-> "none"],
     newest |-> [c \in ConfiguredIds |-> 0],
     cp |-> [called |-> FALSE, result |-> 0, dir |-> NoDir, newest |-> 0],
     imported_in_run |-> 0]

InitExportWith(channels, env) ==
    /\ db = SetupChannels(UpsertServer(EmptyDb, ServerId, "Bittensor Discord").db, ChannelIds)
    /\ pc = [p \in Procs |-> "idle"]
    /\ data = [p \in Procs |-> NoFile]
    /\ idx = [p \in Procs |-> 0]
    /\ found = [p \in Procs |-> FALSE]
    /\ imported_count = [p \in Procs |-> 0]
    /\ skipped_count = [p \in Procs |-> 0]
    /\ ret = [p \in Procs |-> 0]
    /\ call = [op |-> "none", arg |-> 0, id |-> 0, result |-> "None", raised |-> FALSE,
               rows |-> <<>>]
    /\ batch = NoBatch
    /\ ex = ExportStarts(channels, env)
    /\ hist = [runs |-> [p \in Procs |-> 0],
               startDb |-> [p \in Procs |-> db],
               rerun |-> [p \in Procs |-> FALSE],
               failed |-> [p \in Procs |-> FALSE],
               upsertRaised |-> [p \in Procs |-> FALSE],
               race |-> [id |-> 0, outcome |-> [p \in Procs |-> "none"]],
               endDb |-> EmptyDb,
               fedIds |-> {},
               clean |-> TRUE,
               overlap |-> FALSE,
               everStored |-> {}]

InitExport == InitExportWith(<<ChannelGeneral, ChannelDevOps>>, ToolOutcomes)

\* runs of the export script, in normal and in resume mode, one after the other
NextExport ==
    \/ \E resume_mode \in BOOLEAN : ExMainStart(resume_mode)
    \/ ExExportChannel
    \/ ExFinish

SpecExport == InitExport /\ [][NextExport]_vars

(***************************************************************************)
(* Export, loss of export files, resume and import                         *)
(***************************************************************************)
\* str(n) for the identifiers of the platform
IdString(n) ==
    CASE n = 1 -> "1"
      [] n = 2 -> "2"
      [] n = 3 -> "3"
      [] OTHER -> "4"

\* the record the export tool writes for message n of the channel
RecordOf(n) ==
    CASE n = 1 -> RecPlain
      [] n = 2 -> RecEdited
      [] OTHER -> [id |-> IdString(n), author |-> AuthorB,
                   timestamp |-> "2024-01-03T00:00:00Z", content |-> "relayed"]

\* the document json.load reads from an export file of channel general
ExportDoc(file) ==
    IF ~file.readable THEN Malformed
    ELSE [channel |-> ChannelMeta,
          messages |-> [k \in 1..Len(file.ids) |-> RecordOf(file.ids[k])]]

\* what may happen to the export files of a channel between runs: the folder is
\* removed, its files are removed, the file get_last_message_id reads becomes
\* unreadable or is left without messages
Damages == {"removed", "emptied", "unreadable", "truncated"}

Damaged(dir, kind) ==
    CASE kind = "removed" -> NoDir
      [] kind = "emptied" -> [dir EXCEPT !.files = <<>>]
      [] kind = "unreadable" ->
           IF dir.files = <<>> THEN dir
           ELSE [dir EXCEPT !.files[LastByName(dir.files)].readable = FALSE]
      [] OTHER ->
           IF dir.files = <<>> THEN dir
           ELSE [dir EXCEPT !.files[LastByName(dir.files)].ids = <<>>]

ArtifactDamaged ==
    /\ ex.pc = "idle"
    /\ pc[1] \in {"idle", "done"}
    /\ \E f \in Folders, kind \in Damages :
          /\ ex.dirs[f].exists
          /\ Damaged(ex.dirs[f], kind) # ex.dirs[f]
          /\ ex' = [ex EXCEPT !.dirs[f] = Damaged(ex.dirs[f], kind)]
    /\ UNCHANGED <<db, pc, data, idx, found, imported_count, skipped_count, ret, call, batch,
                   hist>>

\* import_json_file of import_historical_exports is given an export file of the
\* channel folder
ImportArtifact ==
    /\ ex.pc = "idle"
    /\ \E f \in Folders :
          \E k \in DOMAIN ex.dirs[f].files :
              StartImport(1, ExportDoc(ex.dirs[f].files[k]))
    /\ ex' = [ex EXCEPT !.imported_in_run = ex.runs]
    /\ UNCHANGED batch

InitResume == InitExportWith(<<ChannelGeneral>>, ToolOutcomes)

NextResume ==
    \/ \E resume_mode \in BOOLEAN : ExMainStart(resume_mode)
    \/ ExExportChannel
    \/ ExFinish
    \/ ArtifactDamaged
    \/ ImportArtifact
    \/ ImportStep(1)

SpecResume == InitResume /\ [][NextResume]_vars

(***************************************************************************)
(* Import on a store whose channels are linked to subnets                  *)
(***************************************************************************)
\* the store as setup_db leaves it, the importer at rest
InitLinked ==
    /\ db = SetupChannels(UpsertServer(EmptyDb, ServerId, "Bittensor Discord").db, ChannelIds)
    /\ pc = [p \in Procs |-> "idle"]
    /\ data = [p \in Procs |-> NoFile]
    /\ idx = [p \in Procs |-> 0]
    /\ found = [p \in Procs |-> FALSE]
    /\ imported_count = [p \in Procs |-> 0]
    /\ skipped_count = [p \in Procs |-> 0]
    /\ ret = [p \in Procs |-> 0]
    /\ call = [op |-> "none", arg |-> 0, id |-> 0, result |-> "None", raised |-> FALSE,
               rows |-> <<>>]
    /\ batch = NoBatch
    /\ ex = NoExport
    /\ hist = [runs |-> [p \in Procs |-> 0],
               startDb |-> [p \in Procs |-> db],
               rerun |-> [p \in Procs |-> FALSE],
               failed |-> [p \in Procs |-> FALSE],
               upsertRaised |-> [p \in Procs |-> FALSE],
               race |-> [id |-> 0, outcome |-> [p \in Procs |-> "none"]],
               endDb |-> EmptyDb,
               fedIds |-> {},
               clean |-> TRUE,
               overlap |-> FALSE,
               everStored |-> {}]

\* subnets are created and channels linked between the imports of export files
NextLinked ==
    \/ (pc[1] \in {"idle", "done"} /\ SvcUpsertSubnet)
    \/ (pc[1] \in {"idle", "done"} /\ SvcLinkChannelToSubnet)
    \/ \E f \in ExportFiles : StartImport(1, f) /\ UNCHANGED <<batch, ex>>
    \/ ImportStep(1)

SpecLinked == InitLinked /\ [][NextLinked]_vars

(***************************************************************************)
(* import_historical_exports.main over the same files in different orders  *)
(***************************************************************************)
\* the for loop of import_json_file over the records from the first on: a record
\* that is no object ends the file in the outer except, an upsert_user that raises
\* is caught by the per-message except
RECURSIVE ImportMessages(_, _, _)
ImportMessages(d, msgs, channel_id) ==
    IF msgs = <<>> THEN d
    ELSE IF ~IsObject(Head(msgs)) THEN d
    ELSE LET u == UpsertUser(d, ImportUserArgs(Head(msgs)))
         IN  IF u.raised THEN ImportMessages(d, Tail(msgs), channel_id)
             ELSE ImportMessages(ImportRecord(u.db, Head(msgs), channel_id).db,
                                 Tail(msgs), channel_id)

\* the store a sequential run of import_json_file on file f leaves
ImportJsonFile(d, f) ==
    IF ~Parses(f) THEN d
    ELSE LET c == UpsertChannel(d, ImportChannelArgs(f, ServerId))
         IN  IF c.raised THEN d
             ELSE ImportMessages(c.db, MessagesOf(f), IdOf(Get(f, "channel", <<>>)))

\* the loop of main over json_files
RECURSIVE ImportAll(_, _)
ImportAll(d, json_files) ==
    IF json_files = <<>> THEN d
    ELSE ImportAll(ImportJsonFile(d, Head(json_files)), Tail(json_files))

Reverse(s) == [k \in 1..Len(s) |-> s[Len(s) + 1 - k]]

\* the store as setup_db leaves it
PreparedDb == SetupChannels(UpsertServer(EmptyDb, ServerId, "Bittensor Discord").db, ChannelIds)

\* export files of one channel made at different times: message 1 was edited and
\* its author renamed between two exports
RecPlainLater == [id |-> "1", author |-> AuthorA2, timestamp |-> "2024-01-01T00:00:00Z",
                  timestampEdited |-> "2024-01-03T00:00:00Z", content |-> "edit"]

OrderFiles ==
    {[channel |-> ChannelMeta, messages |-> <<RecPlain>>],
     [channel |-> ChannelMeta, messages |-> <<RecPlain, RecEdited>>],
     [channel |-> ChannelMeta, messages |-> <<RecEdited>>],
     [channel |-> ChannelMeta, messages |-> <<RecPlainLater>>]}

InitOrder ==
    /\ db = PreparedDb
    /\ pc = [p \in Procs |-> "idle"]
    /\ data = [p \in Procs |-> NoFile]
    /\ idx = [p \in Procs |-> 0]
    /\ found = [p \in Procs |-> FALSE]
    /\ imported_count = [p \in Procs |-> 0]
    /\ skipped_count = [p \in Procs |-> 0]
    /\ ret = [p \in Procs |-> 0]
    /\ call = [op |-> "none", arg |-> 0, id |-> 0, result |-> "None", raised |-> FALSE,
               rows |-> <<>>]
    /\ \E json_files \in SeqsUpTo(OrderFiles, MaxRuns) :
          batch = BatchStarted("import_historical_exports", json_files)
    /\ ex = NoExport
    /\ hist = [runs |-> [p \in Procs |-> 0],
               startDb |-> [p \in Procs |-> db],
               rerun |-> [p \in Procs |-> FALSE],
               failed |-> [p \in Procs |-> FALSE],
               upsertRaised |-> [p \in Procs |-> FALSE],
               race |-> [id |-> 0, outcome |-> [p \in Procs |-> "none"]],
               endDb |-> EmptyDb,
               fedIds |-> {},
               clean |-> TRUE,
               overlap |-> FALSE,
               everStored |-> {}]

NextOrder ==
    \/ MainStart
    \/ MainImportFile
    \/ ImportStep(1)
    \/ MainCollect
    \/ MainSummary

SpecOrder == InitOrder /\ [][NextOrder]_vars

(***************************************************************************)
(* The backfill job operations of the service called directly              *)
(***************************************************************************)
\* the values a caller may give to the status of a job
JobStatuses == {"pending", "running", "completed", "failed"}

\* keyword arguments a caller may pass to update_backfill_job
JobKwargs ==
    {[status |-> st] : st \in JobStatuses}
        \cup {[status |-> "completed", end_time |-> "utcnow", messages_imported |-> 1],
              [status |-> "failed", end_time |-> "utcnow", error_message |-> "timeout"],
              [messages_imported |-> 1]}

SvcCreateBackfillJob ==
    /\ Len(db.backfill_jobs) < MaxJobs
    /\ \E channel_id \in ChannelIds :
          Called("create_backfill_job", channel_id, 0, CreateBackfillJob(db, channel_id))

SvcUpdateBackfillJob ==
    \E job_id \in 1..MaxJobs, kwargs \in JobKwargs :
        Called("update_backfill_job", kwargs, job_id, UpdateBackfillJob(db, job_id, kwargs))

NextJobs ==
    \/ SvcUpsertServer
    \/ SvcUpsertChannel
    \/ SvcCreateBackfillJob
    \/ SvcUpdateBackfillJob

\* any sequence of calls that create and update backfill jobs
SpecJobs == Init /\ [][NextJobs]_vars

(***************************************************************************)
(* import_historical_exports.main with storage failures                    *)
(***************************************************************************)
\* the service call import_json_file of process p is in
ServiceCallAt(p) ==
    CASE pc[p] = "channel_write" -> "upsert_channel"
      [] pc[p] = "user_write" -> "upsert_user"
      [] OTHER -> "insert_message"

\* the database fails during a service call (connection lost, statement refused):
\* get_session rolls back and re-raises (service.py:57-60).  From upsert_channel the
\* error reaches the outer except, which returns 0; from upsert_user and from
\* insert_message, which catches IntegrityError only, it reaches the per-message
\* except, which logs it and goes on with the next record
StorageFailure(p) ==
    /\ pc[p] \in {"channel_write", "user_write", "message"}
    /\ db' = db
    /\ call' = [op |-> ServiceCallAt(p), arg |-> hist.runs[p], id |-> idx[p],
                result |-> "None", raised |-> TRUE, rows |-> <<>>]
    /\ IF pc[p] = "channel_write"
       THEN /\ ret' = [ret EXCEPT ![p] = 0]
            /\ pc' = [pc EXCEPT ![p] = "done"]
            /\ idx' = idx
            /\ hist' = [Finished(p) EXCEPT !.failed[p] = TRUE]
       ELSE /\ NextRecord(p)
            /\ ret' = ret
            /\ hist' = hist
    /\ UNCHANGED <<data, found, imported_count, skipped_count, batch, ex>>

NextFailure ==
    \/ MainStart
    \/ MainImportFile
    \/ ImportStep(1)
    \/ StorageFailure(1)
    \/ MainCollect
    \/ MainSummary

SpecFailure == InitOrder /\ [][NextFailure]_vars

(***************************************************************************)
(* The export script on channels whose names contain one another           *)
(***************************************************************************)
InitSelect == InitExportWith(<<ChannelDevOps, ChannelOps>>, ToolOutcomes)

SpecSelect == InitSelect /\ [][NextExport]_vars

(***************************************************************************)
(* bittensor-channel/discord_exporter_automation.py: DiscordExporter       *)
(***************************************************************************)
\* CHANNELS, in the order run_export_cycle visits them
SchedChannels == <<"1", "2">>
SchedChannelIds == {SchedChannels[k] : k \in DOMAIN SchedChannels}

\* export_channel returned None
NoExportFile == [exists |-> FALSE, channel_id |-> "0", ids |-> <<>>]

\* how subprocess.run of the export may end: return code 0, another return code,
\* an exception (TimeoutExpired among them)
SchedOutcomes == {"ok", "failed", "timeout"}

\* what may go wrong in process_export after the checkpoint was saved: nothing,
\* transform_messages raises, the write of the processed file raises
ProcessFaults == {"none", "transform", "write"}

\* the exporter constructed, no checkpoint saved, one message in every channel
SchedStarts ==
    [pc |-> "idle", cycles |-> 0, i |-> 1,
     platform |-> [c \in SchedChannelIds |-> 1],
     last_message_ids |-> [c \in SchedChannelIds |-> 0],
     export_file |-> NoExportFile,
     processed |-> [c \in SchedChannelIds |-> {}],
     covered |-> [c \in SchedChannelIds |-> {}]]

\* a member posts a message in a channel between two cycles
SchedPost ==
    /\ ex.pc = "idle"
    /\ \E c \in SchedChannelIds :
          /\ ex.platform[c] < MaxHistory
          /\ ex' = [ex EXCEPT !.platform[c] = @ + 1]
    /\ UNCHANGED <<db, pc, data, idx, found, imported_count, skipped_count, ret, call, batch,
                   hist>>

\* run_export_cycle is entered
SchedCycleStart ==
    /\ ex.pc = "idle"
    /\ ex.cycles < MaxCycles
    /\ ex' = [ex EXCEPT !.pc = "export", !.cycles = @ + 1, !.i = 1]
    /\ UNCHANGED <<db, pc, data, idx, found, imported_count, skipped_count, ret, call, batch,
                   hist>>

\* the channel after this one, or the end of the cycle
SchedNext(e) ==
    [e EXCEPT !.i = @ + 1,
              !.pc = IF e.i < Len(SchedChannels) THEN "export" ELSE "idle",
              !.export_file = NoExportFile]

\* export_channel: --after the saved id of the channel, or the last 7 days (here
\* all messages) when none is saved; the file on return code 0, None otherwise
SchedExportChannel ==
    /\ ex.pc = "export"
    /\ \E outcome \in SchedOutcomes :
          LET channel_id == SchedChannels[ex.i]
              ids == Range(ex.last_message_ids[channel_id] + 1, ex.platform[channel_id])
          IN  ex' = IF outcome = "ok"
                    THEN [ex EXCEPT !.pc = "process",
                                    !.export_file = [exists |-> TRUE, channel_id |-> channel_id,
                                                     ids |-> ids]]
                    ELSE SchedNext(ex)
    /\ UNCHANGED <<db, pc, data, idx, found, imported_count, skipped_count, ret, call, batch,
                   hist>>

\* process_export: no messages, return; otherwise the checkpoint is set to the id of
\* the last message and saved, then the messages are transformed and the processed
\* file written; an exception after the save is printed
SchedProcessExport ==
    /\ ex.pc = "process"
    /\ \E fault \in ProcessFaults :
          LET f == ex.export_file
              e == SchedNext(ex)
          IN  ex' = IF f.ids = <<>> THEN e
                    ELSE [e EXCEPT
                            !.last_message_ids[f.channel_id] = f.ids[Len(f.ids)],
                            !.covered[f.channel_id] = @ \cup {f.ids[k] : k \in DOMAIN f.ids},
                            !.processed[f.channel_id] =
                                IF fault = "none"
                                THEN @ \cup {f.ids[k] : k \in DOMAIN f.ids} ELSE @]
    /\ UNCHANGED <<db, pc, data, idx, found, imported_count, skipped_count, ret, call, batch,
                   hist>>

InitSched ==
    /\ db = EmptyDb
    /\ pc = [p \in Procs |-> "idle"]
    /\ data = [p \in Procs |-> NoFile]
    /\ idx = [p \in Procs |-> 0]
    /\ found = [p \in Procs |-> FALSE]
    /\ imported_count = [p \in Procs |-> 0]
    /\ skipped_count = [p \in Procs |-> 0]
    /\ ret = [p \in Procs |-> 0]
    /\ call = [op |-> "none", arg |-> 0, id |-> 0, result |-> "None", raised |-> FALSE,
               rows |-> <<>>]
    /\ batch = NoBatch
    /\ ex = SchedStarts
    /\ hist = [runs |-> [p \in Procs |-> 0],
               startDb |-> [p \in Procs |-> EmptyDb],
               rerun |-> [p \in Procs |-> FALSE],
               failed |-> [p \in Procs |-> FALSE],
               upsertRaised |-> [p \in Procs |-> FALSE],
               race |-> [id |-> 0, outcome |-> [p \in Procs |-> "none"]],
               endDb |-> EmptyDb,
               fedIds |-> {},
               clean |-> TRUE,
               overlap |-> FALSE,
               everStored |-> {}]

NextSched ==
    \/ SchedPost
    \/ SchedCycleStart
    \/ SchedExportChannel
    \/ SchedProcessExport

SpecSched == InitSched /\ [][NextSched]_vars

(***************************************************************************)
(* bittensor-channel/discord_scraper_bot.py: DiscordMessageLogger          *)
(***************************************************************************)
\* the lists CHANNELS_TO_MONITOR may hold: any number and order of the channels
ScraperChannels == {1, 2}
MonitorLists == {<<>>, <<1>>, <<2>>, <<1, 2>>, <<2, 1>>}

\* the local variable message of sync_historical_messages before any assignment
Unbound == [bound |-> FALSE, id |-> 0, channel_id |-> 0]

\* how the body of the loop over the channels may go: normally, get_channel
\* returns None, or the fetch of the history raises
SyncFaults == {"none", "not_found", "raises"}

\* the bot constructed by init_database: both tables empty; no message posted
ScraperStarts(monitor) ==
    [pc |-> "idle", cycles |-> 0, i |-> 1,
     monitor |-> monitor,
     clock |-> 0,
     platform |-> [c \in ScraperChannels |-> <<>>],
     messages |-> {},
     last_sync |-> [c \in {IdString(k) : k \in ScraperChannels} |-> "None"],
     message |-> Unbound,
     pending |-> <<>>,
     fetched |-> [c \in ScraperChannels |-> <<>>]]

\* log_message: INSERT OR REPLACE of the row of the message, keyed by its id
LogMessage(rows, id, channel_id) ==
    {r \in rows : r.id # IdString(id)}
        \cup {[id |-> IdString(id), channel_id |-> IdString(channel_id)]}

\* the messages of the channel newer than after_id, oldest first
HistoryAfter(e, channel_id, after_id) ==
    SelectSeq(e.platform[channel_id], LAMBDA m : m > after_id)

\* a member posts a message; on_message logs it when the bot is connected and the
\* channel is monitored
ScraperPost ==
    /\ ex.pc = "idle"
    /\ ex.clock < MaxHistory
    /\ \E c \in ScraperChannels, online \in BOOLEAN :
          LET id == ex.clock + 1
              monitored == \E k \in DOMAIN ex.monitor : ex.monitor[k] = c
          IN  ex' = [ex EXCEPT !.clock = id,
                               !.platform[c] = Append(@, id),
                               !.messages = IF online /\ monitored
                                            THEN LogMessage(@, id, c) ELSE @]
    /\ UNCHANGED <<db, pc, data, idx, found, imported_count, skipped_count, ret, call, batch,
                   hist>>

\* sync_historical_messages is called: its local variables are new
SyncStart ==
    /\ ex.pc = "idle"
    /\ ex.cycles < MaxCycles
    /\ ex' = [ex EXCEPT !.cycles = @ + 1, !.i = 1, !.message = Unbound,
                        !.pending = <<>>,
                        !.fetched = [c \in ScraperChannels |-> <<>>],
                        !.pc = IF ex.monitor = <<>> THEN "idle" ELSE "channel"]
    /\ UNCHANGED <<db, pc, data, idx, found, imported_count, skipped_count, ret, call, batch,
                   hist>>

\* the next channel of the loop, or the return
SyncNext(e) ==
    [e EXCEPT !.i = @ + 1,
              !.pending = <<>>,
              !.pc = IF e.i < Len(e.monitor) THEN "channel" ELSE "idle"]

\* lines 191-211: get_channel, the SELECT of last_message_id, the history after it
SyncGetChannel ==
    /\ ex.pc = "channel"
    /\ \E fault \in SyncFaults :
          LET channel_id == ex.monitor[ex.i]
              result == ex.last_sync[IdString(channel_id)]
              after_id == IF result # "None" THEN ParseInt(result) ELSE 0
          IN  ex' = IF fault = "none"
                    THEN [ex EXCEPT !.pc = "history",
                                    !.pending = HistoryAfter(ex, channel_id, after_id)]
                    ELSE SyncNext(ex)
    /\ UNCHANGED <<db, pc, data, idx, found, imported_count, skipped_count, ret, call, batch,
                   hist>>

\* lines 211-213: one turn of the async for: message is assigned and logged; or
\* the fetch raises and the except of line 228 goes on with the next channel
SyncLogMessage ==
    /\ ex.pc = "history"
    /\ ex.pending # <<>>
    /\ \E fault \in SyncFaults \ {"not_found"} :
          LET channel_id == ex.monitor[ex.i]
              id == Head(ex.pending)
          IN  ex' = IF fault = "raises" THEN SyncNext(ex)
                    ELSE [ex EXCEPT
                            !.message = [bound |-> TRUE, id |-> id, channel_id |-> channel_id],
                            !.messages = LogMessage(@, id, channel_id),
                            !.fetched[channel_id] = Append(@, id),
                            !.pending = Tail(@)]
    /\ UNCHANGED <<db, pc, data, idx, found, imported_count, skipped_count, ret, call, batch,
                   hist>>

\* lines 215-229: the history is exhausted; INSERT OR REPLACE INTO last_sync of
\* str(message.id), message being whatever the function last assigned to it; an
\* unbound message raises, which the except of line 228 prints
SyncUpdateLastSync ==
    /\ ex.pc = "history"
    /\ ex.pending = <<>>
    /\ LET channel_id == ex.monitor[ex.i]
       IN  ex' = IF ex.message.bound
                 THEN [SyncNext(ex) EXCEPT
                         !.last_sync[IdString(channel_id)] = IdString(ex.message.id)]
                 ELSE SyncNext(ex)
    /\ UNCHANGED <<db, pc, data, idx, found, imported_count, skipped_count, ret, call, batch,
                   hist>>

InitScraper ==
    /\ db = EmptyDb
    /\ pc = [p \in Procs |-> "idle"]
    /\ data = [p \in Procs |-> NoFile]
    /\ idx = [p \in Procs |-> 0]
    /\ found = [p \in Procs |-> FALSE]
    /\ imported_count = [p \in Procs |-> 0]
    /\ skipped_count = [p \in Procs |-> 0]
    /\ ret = [p \in Procs |-> 0]
    /\ call = [op |-> "none", arg |-> 0, id |-> 0, result |-> "None", raised |-> FALSE,
               rows |-> <<>>]
    /\ batch = NoBatch
    /\ \E monitor \in MonitorLists : ex = ScraperStarts(monitor)
    /\ hist = [runs |-> [p \in Procs |-> 0],
               startDb |-> [p \in Procs |-> EmptyDb],
               rerun |-> [p \in Procs |-> FALSE],
               failed |-> [p \in Procs |-> FALSE],
               upsertRaised |-> [p \in Procs |-> FALSE],
               race |-> [id |-> 0, outcome |-> [p \in Procs |-> "none"]],
               endDb |-> EmptyDb,
               fedIds |-> {},
               clean |-> TRUE,
               overlap |-> FALSE,
               everStored |-> {}]

NextScraper ==
    \/ ScraperPost
    \/ SyncStart
    \/ SyncGetChannel
    \/ SyncLogMessage
    \/ SyncUpdateLastSync

SpecScraper == InitScraper /\ [][NextScraper]_vars

(***************************************************************************)
(* Properties of the sequential pipeline (Spec)                            *)
(***************************************************************************)
Running(p) == pc[p] \notin {"idle", "done"}

\* rows the run of process p that just ended added to the messages table
NewRows(p) ==
    {db.messages[i] : i \in (Len(hist.startDb[p].messages) + 1)..Len(db.messages)}

\* C1: a run of import_json_file on the file of the previous run, against the store
\* that run left, ends with the messages table as it found it: no row is added.
C1_ReimportAddsNoRow ==
    \A p \in Procs :
        (pc[p] = "done" /\ hist.rerun[p]) => db.messages = hist.startDb[p].messages

\* a second run of a file whose first run imported rows has ended, all duplicates
C1_Witness ==
    /\ pc[1] = "done"
    /\ hist.rerun[1]
    /\ Len(db.messages) = 2
    /\ skipped_count[1] = 2

\* C2: on a store prepared by setup_db, after export files whose records all carry
\* id and timestamp have been imported, in whatever order, the messages table holds
\* exactly one row per identifier found in those files and no other row.
C2_OneRowPerIdentifier ==
    (~Running(1) /\ hist.clean) =>
        /\ \A id \in hist.fedIds : Cardinality(RowsOf(db, id)) = 1
        /\ StoredIds(db) = hist.fedIds
        /\ Len(db.messages) = Cardinality(hist.fedIds)

\* two files with overlapping, different identifier sets have both been imported
C2_Witness ==
    /\ pc[1] = "done"
    /\ hist.clean
    /\ hist.overlap
    /\ hist.runs[1] = 2
    /\ hist.fedIds = MsgIds
    /\ Len(db.messages) = 2

\* C8 as claimed: import creates whichever of server, channel and user rows is
\* missing instead of failing on it, so that a run ends with the server and the
\* channel of its file stored and without having failed on them.
C8_ImportCreatesMissingParents ==
    \A p \in Procs :
        pc[p] = "done" =>
            /\ ServerId \in DOMAIN db.servers
            /\ ChannelIdOf(p) \in DOMAIN db.channels
            /\ ~hist.failed[p]

\* the user row the author object of a record asks for
AuthorFields(author) ==
    [username |-> author.name,
     discriminator |-> IF "discriminator" \in DOMAIN author THEN author.discriminator ELSE "None",
     display_name |-> IF "nickname" \in DOMAIN author THEN author.nickname ELSE "None",
     avatar_url |-> IF "avatarUrl" \in DOMAIN author THEN author.avatarUrl ELSE "None",
     bot |-> author.isBot]

\* the author object of the last record of the file by the user with identifier uid
LastAuthor(f, uid) ==
    LET by == {i \in 1..Len(f.messages) : ParseInt(f.messages[i].author.id) = uid}
        last == CHOOSE i \in by : \A j \in by : j <= i
    IN  f.messages[last].author

\* C9: when import_json_file has returned, every message row it added has its user
\* row and its channel row stored, the user row equal to the author metadata of the
\* last record of the file by that author, the channel row carrying the name and the
\* topic of the file's channel metadata.
C9_ParentsMatchFile ==
    \A p \in Procs :
        pc[p] = "done" =>
            \A row \in NewRows(p) :
                /\ row.user_id \in DOMAIN db.users
                /\ db.users[row.user_id] = AuthorFields(LastAuthor(data[p], row.user_id))
                /\ row.channel_id \in DOMAIN db.channels
                /\ db.channels[row.channel_id].name = data[p].channel.name
                /\ db.channels[row.channel_id].topic = data[p].channel.topic

\* a run imported two messages of one author whose metadata changed within the file,
\* into a channel that setup_db had registered under another name
C9_Witness ==
    /\ pc[1] = "done"
    /\ imported_count[1] = 2
    /\ Len(data[1].messages) = 2
    /\ data[1].messages[1].author.id = data[1].messages[2].author.id
    /\ data[1].messages[1].author # data[1].messages[2].author
    /\ 1 \in DOMAIN hist.startDb[1].channels
    /\ hist.startDb[1].channels[1].name # data[1].channel.name

\* C10 as claimed: in a file where exactly one record lacks the timestamp field and
\* the others carry id and timestamp, imported on a prepared store, every other
\* record is stored, the record without timestamp is not stored by the run, and it
\* is counted: the two counters of the run add up to the records of the file.
C10_BadRecordSkippedAndCounted ==
    \A p \in Procs :
        LET m == data[p].messages
            bad == {i \in 1..Len(m) : "timestamp" \notin DOMAIN m[i]}
            good == (1..Len(m)) \ bad
        IN  (/\ pc[p] = "done"
             /\ ServerId \in DOMAIN hist.startDb[p].servers
             /\ Cardinality(bad) = 1
             /\ \A i \in good : "id" \in DOMAIN m[i])
            => /\ \A i \in good : Stored(db, ParseInt(m[i].id))
               /\ \A i \in bad : \A row \in NewRows(p) :
                     row.user_id # IdOf(m[i].author) \/ row.message_id # IdOf(m[i])
               /\ imported_count[p] + skipped_count[p] = Len(m)

\* C13 as claimed: when a run of import_json_file on the file of the previous run,
\* against the store that run left (a store holding its server row), has ended, the
\* messages it reports imported plus those it reports skipped as duplicate are the
\* message records of the file.
C13_SecondRunCountsAllRecords ==
    \A p \in Procs :
        (pc[p] = "done" /\ hist.rerun[p] /\ ServerId \in DOMAIN hist.startDb[p].servers) =>
            imported_count[p] + skipped_count[p] = Len(data[p].messages)


(***************************************************************************)
(* Properties of the main() of the import scripts (SpecMain, SpecMainFair) *)
(***************************************************************************)
\* the run has returned having attempted each file of its list exactly once, having
\* reported each file that does not parse, and having printed its summary
RunComplete ==
    /\ \A k \in 1..Len(batch.json_files) : batch.attempts[k] = 1
    /\ \A k \in 1..Len(batch.json_files) :
          ~Parses(batch.json_files[k]) => k \in batch.reported
    /\ batch.summary

\* C11 as claimed: for any list of export files, the run of either import script
\* reaches its final summary, and has then attempted each file exactly once, those
\* after a file that does not parse included, and reported that file.
C11_EveryFileOnceThenSummary ==
    /\ [](batch.pc = "exit" => RunComplete)
    /\ <>(batch.pc = "exit" /\ batch.summary)

\* C11, amended: for any list of at least one export file, the run of either import
\* script reaches its final summary, and has then attempted each file exactly
\* once, those after a file that does not parse included, and reported that file.
C11_EveryFileOnceThenSummaryNonEmpty ==
    /\ []((batch.pc = "exit" /\ Len(batch.json_files) > 0) => RunComplete)
    /\ (Len(batch.json_files) > 0) ~> (batch.pc = "exit" /\ batch.summary)

\* a run over a file that does not parse followed by an export file has ended, the
\* message of the second file imported
C11_Witness ==
    /\ batch.pc = "exit"
    /\ batch.summary
    /\ Len(batch.json_files) = 2
    /\ ~Parses(batch.json_files[1])
    /\ batch.attempts[2] = 1
    /\ batch.total_imported = 1

\* C12 as claimed: when batch_import_all has printed its summary, every message of
\* every export file whose records carry id and timestamp is stored, the imported
\* total is the number of rows the run added, and no such file holding messages was
\* counted as failed.
C12_BatchImportStoresEveryFile ==
    (batch.script = "batch_import_all" /\ batch.pc = "exit" /\ batch.summary) =>
        /\ \A k \in 1..Len(batch.json_files) :
              WellFormed(batch.json_files[k]) =>
                  /\ IdsOfFile(batch.json_files[k]) \subseteq StoredIds(db)
                  /\ Len(MessagesOf(batch.json_files[k])) > 0 => k \notin batch.failedIdx
        /\ batch.total_imported = Len(db.messages) - Len(hist.startDb[1].messages)

\* C14 as claimed: the count import_json_file returns is the number of message rows
\* the call committed, whether it ran to its end or was abandoned part-way.
C14_ReturnIsRowsCommitted ==
    \A p \in Procs :
        (pc[p] = "done" /\ hist.runs[p] > 0) =>
            ret[p] = Len(db.messages) - Len(hist.startDb[p].messages)

(***************************************************************************)
(* Properties of the export script (SpecExport)                            *)
(***************************************************************************)
\* C15 as claimed: get_last_message_id returns None when the channel has no export
\* folder or no export file in it, and otherwise the identifier of the final
\* message of the file produced last (of an export in partitions, the partition
\* written last), that file being readable and holding messages.
C15_CheckpointIsLastOfNewestFile ==
    ex.cp.called =>
        IF ~ex.cp.dir.exists \/ ex.cp.dir.files = <<>>
        THEN ex.cp.result = 0
        ELSE LET newest_file == ex.cp.dir.files[Len(ex.cp.dir.files)]
             IN  (newest_file.readable /\ newest_file.ids # <<>>) =>
                     ex.cp.result = newest_file.ids[Len(newest_file.ids)]

\* the step is the end of a run of the export script, a turn of its export loop,
\* the start of a run
RunEnds == ex.pc = "loop" /\ ex'.pc = "idle"
ChannelExported == ex.pc = "loop" /\ ex'.i = ex.i + 1
RunStarts == ex.pc = "idle" /\ ex'.runs = ex.runs + 1

\* C17: when a run of the export script ends, every channel whose export failed as
\* forbidden in it is in the skip list file; no channel that is in the skip list
\* file is handed to the export tool, in normal or in resume mode; and a channel
\* enters the skip list file only after its export failed as forbidden.
C17_DenylistPersistedAndObeyed ==
    [][/\ RunEnds =>
              \A c \in DOMAIN ex.outcome : ex.outcome[c] = "forbidden" => c \in ex'.skip_file
       /\ ChannelExported => ex.to_export[ex.i].channel_id \notin ex.skip_file
       /\ \A c \in ex'.skip_file \ ex.skip_file : ex.outcome[c] = "forbidden"]_vars

\* a later run, in resume mode, has exported the other channel while one channel is
\* in the skip list file, after a run in which an export failed as forbidden and
\* another failed otherwise
C17_Witness ==
    /\ ex.runs = 2
    /\ ex.resume_mode
    /\ ex.skip_file = {"2"}
    /\ ex.to_export = <<ChannelGeneral>>
    /\ ex.i = 2
    /\ ex.outcome["1"] = "ok"

\* C18 as claimed: when a run of the export script starts, in normal or in resume
\* mode, every channel whose export failed in the previous run for a reason other
\* than forbidden is among the channels it exports, whatever the failed attempt
\* left in the export directory.
C18_FailedChannelRetried ==
    [][RunStarts =>
          \A k \in DOMAIN ex.channels :
              ex.outcome[ex.channels[k].channel_id] \in {"notfound", "error", "timeout"} =>
                  \E j \in DOMAIN ex'.to_export : ex'.to_export[j] = ex.channels[k]]_vars

(***************************************************************************)
(* Properties of export, resume and import (SpecResume)                    *)
(***************************************************************************)
\* the stored messages carrying the identifier
RowsWithId(d, id) == {i \in DOMAIN d.messages : d.messages[i].message_id = id}

\* C16: whatever get_last_message_id returned for the resume export (the newest
\* exported identifier, an older one, or None because the export files are gone,
\* empty or unreadable), the messages table never holds two rows with one
\* identifier, no step removes or changes a stored message, and the checkpoint is
\* never newer than the newest identifier exported so far, so that the resume
\* export fetches at least the messages after it.
C16_CheckpointLossIsHarmless ==
    [][/\ \A id \in StoredIds(db') : Cardinality(RowsWithId(db', id)) = 1
       /\ \A i \in DOMAIN db.messages :
              \E j \in DOMAIN db'.messages : db'.messages[j] = db.messages[i]
       /\ ex'.cp.called => ex'.cp.result <= ex'.cp.newest]_vars

\* after a resume export whose checkpoint was older than the newest exported
\* identifier, an import of an export file has finished and met stored messages
C16_Witness ==
    /\ ex.resume_mode
    /\ ex.cp.called
    /\ ex.cp.result < ex.cp.newest
    /\ ex.pc = "idle"
    /\ ex.runs = ex.imported_in_run
    /\ ex.runs > 1
    /\ ex.outcome["1"] = "ok"
    /\ pc[1] = "done"
    /\ skipped_count[1] > 0
    /\ Len(db.messages) > 1

(***************************************************************************)
(* Properties of the service called directly (SpecService)                 *)
(***************************************************************************)
InsertCalled == call'.op = "insert_message"

\* the duplicate outcome of insert_message: None, no exception, no row changed
DuplicateOutcome ==
    /\ call'.result = "None"
    /\ ~call'.raised
    /\ db' = db

\* the inserted outcome: the row of the record is committed and returned
InsertedOutcome ==
    /\ call'.result = "Message"
    /\ ~call'.raised
    /\ db'.messages = Append(db.messages, MessageRow(call'.arg))
    /\ db'.users = db.users /\ db'.channels = db.channels /\ db'.servers = db.servers
    /\ db'.subnets = db.subnets

\* C3 as claimed: insert_message on a stored identifier gives the duplicate outcome
\* and leaves the stored row as it is; on an identifier not stored, with the channel
\* and the author of the record present, it commits the row and returns it.
C3_InsertedOrDuplicate ==
    [][InsertCalled =>
          /\ Stored(db, call'.id) => DuplicateOutcome
          /\ (/\ ~Stored(db, call'.id)
              /\ call'.arg.channel_id \in DOMAIN db.channels
              /\ call'.arg.user_id \in DOMAIN db.users) => InsertedOutcome]_vars

\* C3, amended: insert_message on a stored identifier gives the duplicate outcome and
\* leaves the stored row as it is; on an identifier not stored, with the channel and
\* the author of the record present and a timestamp that is not null, it commits
\* the row and returns it.
C3_InsertedOrDuplicateWithTimestamp ==
    [][InsertCalled =>
          /\ Stored(db, call'.id) => DuplicateOutcome
          /\ (/\ ~Stored(db, call'.id)
              /\ call'.arg.channel_id \in DOMAIN db.channels
              /\ call'.arg.user_id \in DOMAIN db.users
              /\ call'.arg.timestamp # "None") => InsertedOutcome]_vars

\* insert_message has just answered None for a record that differs from the row
\* stored under its identifier, and that row is still the one stored
C3_Witness ==
    /\ call.op = "insert_message"
    /\ call.result = "None"
    /\ call.arg.user_id \in DOMAIN db.users
    /\ call.arg.timestamp # "None"
    /\ \E i \in RowsOf(db, call.id) : db.messages[i].user_id # call.arg.user_id

\* C6 as claimed: insert_message answers None, the duplicate outcome, only for a
\* record whose identifier is stored.
C6_NoneOnlyForStoredIdentifier ==
    (call.op = "insert_message" /\ call.result = "None") => Stored(db, call.id)

\* C7 as claimed: no service operation removes a message row or changes the
\* identifier it is stored under.
C7_IdentifierKept ==
    [][\A id \in MsgIds : Stored(db, id) => Stored(db', id)]_vars

\* the row stored under identifier id (the first, should there be several)
RowOf(d, id) == d.messages[CHOOSE i \in RowsOf(d, id) : \A j \in RowsOf(d, id) : i <= j]

InRows(id, rows) == \E i \in DOMAIN rows : rows[i].message_id = id

\* mark_message_deleted kept the row of identifier id, now flagged deleted with a
\* deletion time, changed nothing else, and the row is returned by the
\* include_deleted queries of its channel and of the subnet of its channel
SoftDeleted(id) ==
    /\ call'.result = "True"
    /\ Len(db'.messages) = Len(db.messages)
    /\ \A i \in DOMAIN db.messages :
          IF db.messages[i].message_id = id
          THEN /\ db'.messages[i].deleted
               /\ db'.messages[i].deleted_at # "None"
               /\ [db'.messages[i] EXCEPT !.deleted = FALSE, !.deleted_at = "None"]
                     = [db.messages[i] EXCEPT !.deleted = FALSE, !.deleted_at = "None"]
          ELSE db'.messages[i] = db.messages[i]
    /\ InRows(id, GetMessagesByChannel(db', RowOf(db', id).channel_id, DefaultLimit, 0, TRUE))
    /\ \A s \in DOMAIN db'.subnets :
          db'.channels[RowOf(db', id).channel_id].subnet_id = s =>
              InRows(id, GetMessagesBySubnet(db', db'.subnets[s].name, DefaultLimit, 0, TRUE))

\* C19 as claimed: mark_message_deleted on a stored identifier keeps the row, sets
\* deleted and the deletion time, and the row is then returned by
\* get_messages_by_channel and get_messages_by_subnet with include_deleted=True,
\* on a first call as on a repeated one; the call reports not found exactly when
\* the identifier was never stored, and then changes nothing.
C19_SoftDeleteKeepsRow ==
    [][call'.op = "mark_message_deleted" =>
          /\ Stored(db, call'.id) => SoftDeleted(call'.id)
          /\ call'.result = "False" <=> call'.id \notin hist.everStored
          /\ call'.result = "False" => db' = db]_vars

\* whether the row matches what a query call asks for, the deleted flag left aside
Matches(d, row, c) ==
    CASE c.op = "get_messages_by_channel" -> row.channel_id = c.arg.channel_id
      [] c.op = "get_messages_by_subnet" -> InSubnet(d, row, c.arg.subnet_name)
      [] c.op = "get_messages_by_timerange" ->
            /\ row.timestamp # "None"
            /\ TsOrd(row.timestamp) >= TsOrd(c.arg.start_time)
            /\ TsOrd(row.timestamp) <= TsOrd(c.arg.end_time)
            /\ (c.arg.channel_id # 0 => row.channel_id = c.arg.channel_id)
            /\ (c.arg.subnet_name # "None" => InSubnet(d, row, c.arg.subnet_name))
      [] c.op = "search_messages" ->
            /\ ILike(row.content, c.arg.search_term)
            /\ (c.arg.subnet_name # "None" => InSubnet(d, row, c.arg.subnet_name))
      [] OTHER -> FALSE

\* the caller asked for deleted messages to be left out
AsksToFilterDeleted(c) ==
    /\ c.op \in {"get_messages_by_channel", "get_messages_by_subnet"}
    /\ c.arg.include_deleted = "False"

\* C20 as claimed: each message query (by channel, by subnet, by time range, by text
\* search) returns the soft-deleted messages that match it, unless the caller
\* explicitly asked for deleted messages to be filtered out.
C20_DeletedStillQueryable ==
    (call.result = "Rows" /\ ~AsksToFilterDeleted(call)) =>
        \A i \in DOMAIN db.messages :
            (db.messages[i].deleted /\ Matches(db, db.messages[i], call)) =>
                \E k \in DOMAIN call.rows : call.rows[k] = db.messages[i].message_id

(***************************************************************************)
(* Properties of two import processes at once (SpecConcurrent)             *)
(***************************************************************************)
\* C4: when two import processes stand before insert_message with the same
\* identifier while no row carries it, then once both calls have returned, one has
\* reported inserted, the other duplicate, and one row carries the identifier.
C4_ExactlyOneInsertWins ==
    (\A p \in Procs : hist.race.outcome[p] \notin {"none", "pending"}) =>
        /\ \E p \in Procs :
              /\ hist.race.outcome[p] = "imported"
              /\ \A q \in Procs \ {p} : hist.race.outcome[q] = "duplicate"
        /\ Cardinality(RowsOf(db, hist.race.id)) = 1

\* both calls of such a race have returned
C4_Witness ==
    /\ hist.race.id # 0
    /\ \A p \in Procs : hist.race.outcome[p] \in {"imported", "duplicate"}
    /\ Stored(db, hist.race.id)

\* C5 as claimed: when both processes have finished, no upsert_channel or
\* upsert_user has raised in either, and every message of both files is stored
\* (the files of these runs hold valid records only, the store has its server row).
C5_ConcurrentUpsertsSafe ==
    (\A p \in Procs : pc[p] = "done") =>
        \A p \in Procs :
            /\ ~hist.failed[p]
            /\ ~hist.upsertRaised[p]
            /\ IdsOfFile(data[p]) \subseteq StoredIds(db)

(***************************************************************************)
(* Properties of import on a linked store (SpecLinked)                     *)
(***************************************************************************)
\* the step is the write of upsert_channel, on a channel row its SELECT found
ChannelUpdated(p) ==
    /\ pc[p] = "channel_write"
    /\ found[p]
    /\ pc'[p] # "done"

\* C21 as claimed: upsert_channel on an existing identifier overwrites the fields
\* the caller passes and leaves the others as stored: the upsert_channel of an
\* import, which passes name and topic, leaves the subnet link, the category and
\* the position of the channel row as they were.
C21_UpsertKeepsFieldsNotProvided ==
    [][\A p \in Procs :
          ChannelUpdated(p) =>
              LET c == ChannelIdOf(p)
              IN  /\ db'.channels[c].name = ImportChannelArgs(data[p], ServerId).name
                  /\ db'.channels[c].topic = ImportChannelArgs(data[p], ServerId).topic
                  /\ db'.channels[c].subnet_id = db.channels[c].subnet_id
                  /\ db'.channels[c].category = db.channels[c].category
                  /\ db'.channels[c].position = db.channels[c].position]_vars

(***************************************************************************)
(* Properties of the upserts called directly (SpecService)                 *)
(***************************************************************************)
Upserts == {"upsert_server", "upsert_channel", "upsert_user"}

\* the identifier the upsert just called was given is stored before the call
UpsertOnExisting ==
    CASE call'.op = "upsert_server" -> call'.arg \in DOMAIN db.servers
      [] call'.op = "upsert_channel" -> call'.arg.channel_id \in DOMAIN db.channels
      [] call'.op = "upsert_user" -> call'.arg.user_id \in DOMAIN db.users
      [] OTHER -> FALSE

\* C22: upsert_server, upsert_channel and upsert_user are idempotent: a call that
\* repeats the call before it, which returned, leaves the store as that call left
\* it and returns too; and a call whose identifier is already stored raises no
\* error.
C22_UpsertsIdempotent ==
    [][call'.op \in Upserts =>
          /\ (call.op = call'.op /\ call.arg = call'.arg /\ ~call.raised) =>
                 (db' = db /\ ~call'.raised)
          /\ UpsertOnExisting => ~call'.raised]_vars

\* upsert_user has returned for a user whose row was stored before the call (a
\* message of that user is stored), and the row holds what the call passed
C22_Witness ==
    /\ call.op = "upsert_user"
    /\ ~call.raised
    /\ \E i \in DOMAIN db.messages : db.messages[i].user_id = call.arg.user_id
    /\ db.users[call.arg.user_id].username = call.arg.username
    /\ db.users[call.arg.user_id].display_name = call.arg.display_name

(***************************************************************************)
(* Properties of the order of the files (SpecOrder)                        *)
(***************************************************************************)
\* two stores hold the same message, user and channel rows
SameRows(d1, d2) ==
    /\ {d1.messages[i] : i \in DOMAIN d1.messages} = {d2.messages[i] : i \in DOMAIN d2.messages}
    /\ d1.users = d2.users
    /\ d1.channels = d2.channels

\* C23 as claimed: when main has imported its files, the message, user and channel
\* rows stored are those a run over the same files in the opposite order leaves.
C23_FileOrderIrrelevant ==
    batch.summary => SameRows(db, ImportAll(PreparedDb, Reverse(batch.json_files)))

\* the run of main leaves what the loop over its files, in its order, computes
OrderRunIsImportAll ==
    batch.summary => SameRows(db, ImportAll(PreparedDb, batch.json_files))

(***************************************************************************)
(* Properties of the backfill jobs (SpecJobs, SpecOrder)                   *)
(***************************************************************************)
\* C24 as claimed: a job row stays, and its status changes only from pending to
\* running and from running to completed or failed, so that a completed or failed
\* job keeps its status.
C24_JobStatusLifecycle ==
    [][\A j \in DOMAIN db.backfill_jobs :
          /\ j \in DOMAIN db'.backfill_jobs
          /\ db'.backfill_jobs[j].status # db.backfill_jobs[j].status =>
                 <<db.backfill_jobs[j].status, db'.backfill_jobs[j].status>> \in
                     {<<"pending", "running">>, <<"running", "completed">>,
                      <<"running", "failed">>}]_vars

\* C25 as claimed: when a run of import_json_file has ended, the backfill_jobs table
\* holds a job of the channel of the file with a final status, an end time and the
\* count of messages the run imported.
C25_ImportTracksBackfillJob ==
    \A p \in Procs :
        (pc[p] = "done" /\ hist.runs[p] > 0) =>
            \E j \in DOMAIN db.backfill_jobs :
                /\ db.backfill_jobs[j].channel_id = ChannelIdOf(p)
                /\ db.backfill_jobs[j].status \in {"completed", "failed"}
                /\ db.backfill_jobs[j].end_time # "None"
                /\ db.backfill_jobs[j].messages_imported = imported_count[p]

(***************************************************************************)
(* Properties of the records import skips (Spec)                           *)
(***************************************************************************)
\* the record process p is at will not be handed to insert_message: it has no
\* timestamp (continue) or no id (per-message except)
AtSkippedRecord(p) ==
    /\ pc[p] \in {"user_select", "user_write", "message"}
    /\ ImportRecord(db, Messages(p)[idx[p]], ChannelIdOf(p)).outcome \in {"skip", "error"}

\* C28 as claimed: no step import takes on a record it skips changes the store: no
\* user, channel or message row is created or modified for that record.
C28_SkippedRecordLeavesStore ==
    [][\A p \in Procs : AtSkippedRecord(p) => db' = db]_vars

(***************************************************************************)
(* Properties of import under storage failures (SpecFailure)               *)
(***************************************************************************)
\* the step is a storage failure while a message of the file is being imported
FailureAtMessage(p) ==
    /\ pc[p] \in {"user_write", "message"}
    /\ call'.raised
    /\ call' # call

\* C26 as claimed: a storage failure while a message of a file is being imported
\* ends the import of that file, no further message of the file being attempted,
\* and the loop of main goes on with the next file.
C26_StorageFailureAbortsFile ==
    [][\A p \in Procs :
          FailureAtMessage(p) =>
              /\ pc'[p] # "user_select"
              /\ batch'.pc = "importing"]_vars

(***************************************************************************)
(* Properties of the selection of channels (SpecSelect)                    *)
(***************************************************************************)
\* C27 as claimed: when a run in normal mode starts, every configured channel that
\* is not in the skip list file and has no export folder of its own is among the
\* channels the run exports, whatever folders of other channels exist.
C27_UnexportedChannelSelected ==
    [][(RunStarts /\ ~ex'.resume_mode) =>
          \A k \in DOMAIN ex.channels :
              (/\ ex.channels[k].channel_id \notin ex.skip_file
               /\ ~ex.dirs[FolderName(ex.channels[k].name)].exists) =>
                  \E j \in DOMAIN ex'.to_export : ex'.to_export[j] = ex.channels[k]]_vars

(***************************************************************************)
(* Properties of the scheduled exporter (SpecSched)                        *)
(***************************************************************************)
\* C29 as claimed: every message of an export whose last id became the saved
\* checkpoint of its channel is in a processed file; and an export that failed,
\* timed out or holds no message leaves every checkpoint as it was.
C29_CheckpointOnlyPastProcessed ==
    [][/\ \A c \in SchedChannelIds : ex'.covered[c] \subseteq ex'.processed[c]
       /\ ex.pc = "export" => ex'.last_message_ids = ex.last_message_ids
       /\ (ex.pc = "process" /\ ex.export_file.ids = <<>>) =>
              ex'.last_message_ids = ex.last_message_ids]_vars


\* C30: after sync_historical_messages has processed a monitored channel, the
\* channel's last_sync entry is unchanged, or it holds the id of the last message
\* the call fetched from that same channel; it never holds the id of a message of
\* another channel
C30_LastSyncOfSameChannel ==
    [][\A c \in ScraperChannels :
          \/ ex'.last_sync[IdString(c)] = ex.last_sync[IdString(c)]
          \/ /\ ex'.fetched[c] # <<>>
             /\ ex'.last_sync[IdString(c)] = IdString(ex'.fetched[c][Len(ex'.fetched[c])])]_vars

====
